---- MODULE Spec2Model ----
(***************************************************************************)
(* A model of the Cardboard VR video player core: the native              *)
(* VideoPlayerApp object (video_player_app.cc), its JNI bridge, and the   *)
(* VrVideoActivity host that drives it from the activity thread and the   *)
(* GLSurfaceView render thread.                                            *)
(*                                                                         *)
(* Handles of GPU and SDK objects are natural numbers, 0 being the null   *)
(* handle; the n-th object created of a kind has handle n.  Every call    *)
(* into OpenGL or the Cardboard SDK is logged as a record.                 *)
(***************************************************************************)
EXTENDS Naturals, Integers, Sequences, FiniteSets

\* -------------------------------------------------------------- bounds
\* Objects of one kind that may be created in a run.
MaxCreate == 2
\* Frames the decoder pushes into one application instance.
MaxFrames == 2
\* SetEffectSettings calls in a run.
MaxSettingsCalls == 2
\* Columns of a frame handed to ProcessVideoFrame.
MaxWidth == 4

Kinds == {"program", "buffer", "texture", "tracker", "lens", "renderer"}

\* The screen sizes the host reports: landscape and portrait.
ScreenSizes == {<<2, 1>>, <<1, 2>>}

\* InitializeGl allocates the texture as a square of this side.
TextureSide == 512
\* The sizes (columns, rows) of the frames the decoder delivers.
FrameSizes == {<<512, 512>>, <<1024, 512>>}

VARIABLES
    \* g_video_player_app (jni bridge): TRUE when the unique_ptr holds an instance
    instance,
    \* fields of VideoPlayerApp
    program_, vertex_buffer_, texture_id_,
    lens_distortion_, distortion_renderer_, head_tracker_,
    frame_updated_, screen_width_, screen_height_,
    processed_frame_, video_uri_, effect_settings_,
    frame_size,       \* <<cols, rows>> of processed_frame_ (<<0, 0>>: empty)
    \* the GPU and the SDK
    created,          \* kind -> number of calls of the kind's create function so far
    destroyed,        \* kind -> handles passed to the kind's destroy function
    paused_trackers,  \* head trackers paused and not resumed
    texture_data,     \* frame held by the texture texture_id_ (0: black)
    texture_size,     \* <<width, height>> the texture texture_id_ is allocated with
    \* the render thread inside OnDrawFrame
    gl_pc,            \* "idle", the next step of the tick in progress, or "done"
                      \* (a tick has ended and no other operation has run since)
    \* the tick in progress or just done (reset when gl_pc returns to "idle")
    tick_calls,       \* its GPU/SDK calls
    tick_flag0,       \* frame_updated_ when it began
    tick_clears,      \* times it wrote frame_updated_ = false
    tick_paused0,     \* whether it began between OnPause and OnResume
    \* history of the latest completed operation other than a draw tick
    last_op,          \* the operation
    op_calls,         \* its GPU/SDK calls (emptied when a draw tick begins)
    op_pre,           \* what it found (zeroed when a draw tick begins)
    op_args,          \* its arguments
    \* history of the frame source
    latest_frame,     \* number of the newest frame pushed (0: none)
    last_uploaded,    \* number of the newest frame uploaded to the texture
    host_paused,      \* OnPause was called and OnResume not since
    \* the host activity
    act,              \* where the activity thread is in the activity's lifecycle
    gl_paused,        \* the GLSurfaceView's render thread is not rendering
    surf,             \* the render thread's surface: "none", "created", "sized"
    \* the settings screen
    preferences,      \* the SharedPreferences "VideoPlayerSettings", as
                      \* getEffectSettings reads them (values in 1/100)
    settings_screen,  \* SettingsActivity: "closed", "open", or "result_ok"
                      \* (finished by onBackPressed, its result not yet delivered)
    \* playback and the touch listener of the GLSurfaceView
    isPlaying,        \* VrVideoActivity.isPlaying
    exoPlayer,        \* "null", or the player's state: "playing", "paused"
                      \* (play-when-ready off), "released"
    duration,         \* what exoPlayer.getDuration() returns
    isLongPress,      \* VrVideoActivity.isLongPress
    longPressRunnable,\* 0: null; n: the Runnable made by the n-th ACTION_DOWN
    posted,           \* the Runnables posted on longPressHandler and not yet run
                      \* or removed, each with the time it is due
    touch,            \* "up", or "down": a gesture on the view is in progress
    now,              \* System.currentTimeMillis()
    lastSeekTime,     \* VrVideoActivity.lastSeekTime
    last_seek,        \* the last exoPlayer.seekTo: tilt, position before,
                      \* position asked for, duration then
    other,            \* the lifecycle of a second VrVideoActivity, started over
                      \* this one ("none": there is none)
    \* one pass of ProcessVideoFrame
    settings_gen,     \* writer of effect_settings_: 0 the constructor, n the n-th
                      \* SetEffectSettings call on this instance
    proc_pc, proc_reads,
    \* one call of ProcessVideoFrame(input, output)
    frame_in,         \* the input frame: one row of pixels <<b, g, r>>
    frame_out         \* what the call produced

appVars == <<instance, program_, vertex_buffer_, texture_id_, lens_distortion_,
             distortion_renderer_, head_tracker_, frame_updated_, screen_width_,
             screen_height_, processed_frame_, video_uri_, frame_size>>
worldVars == <<created, destroyed, paused_trackers, texture_data, texture_size>>
glVars == <<gl_pc, tick_calls, tick_flag0, tick_clears, tick_paused0>>
opVars == <<last_op, op_calls, op_pre, op_args>>
histVars == <<latest_frame, last_uploaded, host_paused>>
playVars == <<isPlaying, exoPlayer, duration>>
touchVars == <<isLongPress, longPressRunnable, posted, touch, now, lastSeekTime, last_seek>>
uiVars == <<preferences, settings_screen, playVars, touchVars, other>>
hostVars == <<act, gl_paused, surf, uiVars>>
fxVars == <<effect_settings_, settings_gen, proc_pc, proc_reads, frame_in, frame_out>>
vars == <<appVars, worldVars, glVars, opVars, histVars, hostVars, fxVars>>

\* -------------------------------------------------------------- helpers
Call(f, k, h) == [fn |-> f, kind |-> k, h |-> h]
Opt(c, call) == IF c THEN <<call>> ELSE <<>>
\* glTexSubImage2D(GL_TEXTURE_2D, 0, 0, 0, width, height, ...) on the bound texture.
SubImageCall(h, width, height) ==
    [fn |-> "glTexSubImage2D", kind |-> "texture", h |-> h,
     width |-> width, height |-> height]
Range(s) == {s[i] : i \in 1..Len(s)}

\* The handle the n-th create call of a kind returns: object n, or null on failure.
NewHandle(k, ok) == IF ok THEN created[k] + 1 ELSE 0
\* created after one create call of each kind in `ks`.
Created(ks) == [k \in Kinds |-> IF k \in ks THEN created[k] + 1 ELSE created[k]]
\* destroyed after the destroy calls of the sequence `calls`.
Destroyed(calls) ==
    [k \in Kinds |-> destroyed[k] \cup {c.h : c \in {d \in Range(calls) : d.kind = k}}]
CanCreate(ks) == \A k \in ks : created[k] < MaxCreate

\* The six owned handles, as the fields hold them.
Handles ==
    [program |-> program_, buffer |-> vertex_buffer_, texture |-> texture_id_,
     tracker |-> head_tracker_, lens |-> lens_distortion_, renderer |-> distortion_renderer_]
\* What an operation found when it began.
Pre == [h |-> Handles, created |-> created, destroyed |-> destroyed]
NoPre == [h |-> [k \in Kinds |-> 0], created |-> [k \in Kinds |-> 0],
          destroyed |-> [k \in Kinds |-> {}]]

\* struct EffectSettings, with its default member initializers (values in 1/100).
DefaultSettings ==
    [left_eye_enabled |-> TRUE, left_eye_contrast |-> 100, left_eye_red_tint |-> 0,
     left_eye_green_tint |-> 0, left_eye_fog_intensity |-> 30, left_eye_directional |-> 0,
     right_eye_enabled |-> FALSE, right_eye_contrast |-> 100, right_eye_red_tint |-> 0,
     right_eye_green_tint |-> 0, right_eye_fog_intensity |-> 0, right_eye_directional |-> 0]

\* The defaults of a settings screen that starts with the left eye's fog off.
PreferenceDefaults_NoFog == [DefaultSettings EXCEPT !.left_eye_fog_intensity = 0]

\* The preferences nobody has written yet, as SettingsActivity.getEffectSettings
\* reads them: the default of each prefs.getBoolean / prefs.getFloat.
PreferenceDefaults ==
    [left_eye_enabled |-> TRUE, left_eye_contrast |-> 100, left_eye_red_tint |-> 0,
     left_eye_green_tint |-> 0, left_eye_fog_intensity |-> 30, left_eye_directional |-> 0,
     right_eye_enabled |-> FALSE, right_eye_contrast |-> 100, right_eye_red_tint |-> 0,
     right_eye_green_tint |-> 0, right_eye_fog_intensity |-> 0, right_eye_directional |-> 0]

\* ProcessVideoFrame has not been called.
NotRun == [state |-> "not run", frame |-> <<>>]

\* Playback.  Times and positions are in milliseconds, tilt angles in 1/1000
\* of a degree.
\* The clock is followed for this many steps.
MaxTicks == 5
\* Gestures (ACTION_DOWN events) followed.
MaxTouches == 2
\* longPressHandler.postDelayed(longPressRunnable, 500).
LongPressDelay == 500
SEEK_THRESHOLD == 500
\* Math.abs(tiltAngle) > 10.
TiltThreshold == 10000
\* C.TIME_UNSET, which getDuration() returns while the duration is not known.
\* It is Long.MIN_VALUE + 1; the code only compares it with positions, and
\* here as there it is below every one of them.
TIME_UNSET == -2147483647
\* The length of the video of the intent.
VideoLength == 60000
\* The clock is looked at every TimeStep, from a time long after the epoch.
TimeStep == 250
StartTime == 1000
NoSeek == [tilt |-> 0, from |-> 0, to |-> 0, duration |-> 0]
\* The activity's fields as their initialisers leave them; no touch yet.
PlayInit ==
    /\ isPlaying = TRUE /\ exoPlayer = "null" /\ duration = TIME_UNSET
    /\ isLongPress = FALSE /\ longPressRunnable = 0 /\ posted = {}
    /\ touch = "up" /\ now = StartTime /\ lastSeekTime = 0 /\ last_seek = NoSeek

\* -------------------------------------------------------------- construction
\* VideoPlayerApp::VideoPlayerApp: every handle null, no frame, no screen size.
Constructed ==
    /\ program_' = 0 /\ vertex_buffer_' = 0 /\ texture_id_' = 0
    /\ lens_distortion_' = 0 /\ distortion_renderer_' = 0 /\ head_tracker_' = 0
    /\ frame_updated_' = FALSE
    /\ screen_width_' = 0 /\ screen_height_' = 0
    /\ processed_frame_' = 0 /\ video_uri_' = 0
    /\ frame_size' = <<0, 0>>
    /\ effect_settings_' = DefaultSettings

\* A destructor that destroys the head tracker before the lens distortion.
DtorCalls_TrackerBeforeLens ==
    Opt(program_ # 0, Call("glDeleteProgram", "program", program_))
    \o Opt(vertex_buffer_ # 0, Call("glDeleteBuffers", "buffer", vertex_buffer_))
    \o Opt(texture_id_ # 0, Call("glDeleteTextures", "texture", texture_id_))
    \o Opt(head_tracker_ # 0,
           Call("CardboardHeadTracker_destroy", "tracker", head_tracker_))
    \o Opt(lens_distortion_ # 0,
           Call("CardboardLensDistortion_destroy", "lens", lens_distortion_))
    \o Opt(distortion_renderer_ # 0,
           Call("CardboardDistortionRenderer_destroy", "renderer", distortion_renderer_))

\* A destructor that destroys the head tracker without testing the handle.
DtorCalls_UnguardedTracker ==
    Opt(program_ # 0, Call("glDeleteProgram", "program", program_))
    \o Opt(vertex_buffer_ # 0, Call("glDeleteBuffers", "buffer", vertex_buffer_))
    \o Opt(texture_id_ # 0, Call("glDeleteTextures", "texture", texture_id_))
    \o Opt(lens_distortion_ # 0,
           Call("CardboardLensDistortion_destroy", "lens", lens_distortion_))
    \o Opt(distortion_renderer_ # 0,
           Call("CardboardDistortionRenderer_destroy", "renderer", distortion_renderer_))
    \o <<Call("CardboardHeadTracker_destroy", "tracker", head_tracker_)>>

\* VideoPlayerApp::~VideoPlayerApp: the destroy calls it issues, in order.
DtorCalls ==
    Opt(program_ # 0, Call("glDeleteProgram", "program", program_))
    \o Opt(vertex_buffer_ # 0, Call("glDeleteBuffers", "buffer", vertex_buffer_))
    \o Opt(texture_id_ # 0, Call("glDeleteTextures", "texture", texture_id_))
    \o Opt(lens_distortion_ # 0,
           Call("CardboardLensDistortion_destroy", "lens", lens_distortion_))
    \o Opt(distortion_renderer_ # 0,
           Call("CardboardDistortionRenderer_destroy", "renderer", distortion_renderer_))
    \o Opt(head_tracker_ # 0,
           Call("CardboardHeadTracker_destroy", "tracker", head_tracker_))

Init ==
    /\ instance = FALSE
    /\ program_ = 0 /\ vertex_buffer_ = 0 /\ texture_id_ = 0
    /\ lens_distortion_ = 0 /\ distortion_renderer_ = 0 /\ head_tracker_ = 0
    /\ frame_updated_ = FALSE
    /\ screen_width_ = 0 /\ screen_height_ = 0
    /\ processed_frame_ = 0 /\ video_uri_ = 0
    /\ frame_size = <<0, 0>>
    /\ effect_settings_ = DefaultSettings
    /\ created = [k \in Kinds |-> 0]
    /\ destroyed = [k \in Kinds |-> {}]
    /\ paused_trackers = {}
    /\ texture_data = 0 /\ texture_size = <<0, 0>>
    /\ gl_pc = "idle" /\ tick_calls = <<>> /\ tick_flag0 = FALSE
    /\ tick_clears = 0 /\ tick_paused0 = FALSE
    /\ last_op = "none" /\ op_calls = <<>> /\ op_pre = NoPre /\ op_args = <<>>
    /\ latest_frame = 0 /\ last_uploaded = 0
    /\ host_paused = FALSE
    /\ act = "none" /\ gl_paused = TRUE /\ surf = "none"
    /\ preferences = PreferenceDefaults /\ settings_screen = "closed"
    /\ PlayInit /\ other = "none"
    /\ settings_gen = 0 /\ proc_pc = "idle" /\ proc_reads = <<>>
    /\ frame_in = <<>> /\ frame_out = NotRun

\* -------------------------------------------------------------- the JNI bridge
\* nativeOnCreate: make_unique builds the new instance, and assigning it to
\* g_video_player_app destroys the instance held before.
CoreNativeOnCreate ==
    /\ Constructed
    /\ instance' = TRUE
    /\ op_calls' = IF instance THEN DtorCalls ELSE <<>>
    /\ destroyed' = Destroyed(op_calls')
    /\ texture_data' = 0 /\ texture_size' = <<0, 0>>
    /\ last_op' = "nativeOnCreate" /\ op_pre' = Pre /\ op_args' = <<>>
    /\ latest_frame' = 0 /\ last_uploaded' = 0 /\ host_paused' = FALSE
    /\ settings_gen' = 0
    /\ UNCHANGED <<created, paused_trackers, proc_pc, proc_reads, frame_in, frame_out>>

\* nativeOnDestroy: g_video_player_app.reset() runs the destructor of the
\* instance held, if any.
CoreNativeOnDestroy ==
    /\ instance
    /\ Constructed
    /\ instance' = FALSE
    /\ op_calls' = DtorCalls
    /\ destroyed' = Destroyed(op_calls')
    /\ texture_data' = 0 /\ texture_size' = <<0, 0>>
    /\ last_op' = "nativeOnDestroy" /\ op_pre' = Pre /\ op_args' = <<>>
    /\ latest_frame' = 0 /\ last_uploaded' = 0 /\ host_paused' = FALSE
    /\ settings_gen' = 0
    /\ UNCHANGED <<created, paused_trackers, proc_pc, proc_reads, frame_in, frame_out>>

\* -------------------------------------------------------------- surface lifecycle
\* InitializeGl: the handles glCreateProgram, glGenBuffers and glGenTextures give.
GlMade(okP) ==
    [program |-> NewHandle("program", okP),
     buffer |-> NewHandle("buffer", TRUE),
     texture |-> NewHandle("texture", TRUE)]

\* InitializeCardboard: the handles the three SDK create functions return.
CardboardMade(okT, okL, okR) ==
    [tracker |-> NewHandle("tracker", okT),
     lens |-> NewHandle("lens", okL),
     renderer |-> NewHandle("renderer", okR)]

\* An InitializeCardboard that keeps the handle a field holds when the
\* create call fails.
InitializeCardboard_KeepsOnFailure(okT, okL, okR) ==
    /\ head_tracker_' = IF okT THEN CardboardMade(okT, okL, okR).tracker ELSE head_tracker_
    /\ lens_distortion_' = IF okL THEN CardboardMade(okT, okL, okR).lens ELSE lens_distortion_
    /\ distortion_renderer_' =
           IF okR THEN CardboardMade(okT, okL, okR).renderer ELSE distortion_renderer_

\* InitializeCardboard stores all three, whatever the fields held.
InitializeCardboard(okT, okL, okR) ==
    /\ head_tracker_' = CardboardMade(okT, okL, okR).tracker
    /\ lens_distortion_' = CardboardMade(okT, okL, okR).lens
    /\ distortion_renderer_' = CardboardMade(okT, okL, okR).renderer

\* OnSurfaceCreated: InitializeGl, then InitializeCardboard.
CoreOnSurfaceCreated(okP, okT, okL, okR) ==
    /\ instance
    /\ CanCreate(Kinds)
    /\ program_' = GlMade(okP).program
    /\ vertex_buffer_' = GlMade(okP).buffer
    /\ texture_id_' = GlMade(okP).texture
    /\ texture_data' = 0 /\ texture_size' = <<TextureSide, TextureSide>>
    /\ InitializeCardboard(okT, okL, okR)
    /\ created' = Created(Kinds)
    /\ last_op' = "OnSurfaceCreated" /\ op_calls' = <<>> /\ op_pre' = Pre /\ op_args' = <<>>
    /\ UNCHANGED <<instance, frame_updated_, screen_width_, screen_height_,
                   processed_frame_, video_uri_, frame_size, destroyed,
                   paused_trackers, histVars, fxVars>>

\* SetScreenParams: the destroy calls it issues before InitializeCardboard.
SetScreenParamsCalls ==
    Opt(lens_distortion_ # 0,
        Call("CardboardLensDistortion_destroy", "lens", lens_distortion_))
    \o Opt(distortion_renderer_ # 0,
           Call("CardboardDistortionRenderer_destroy", "renderer", distortion_renderer_))

CoreSetScreenParams(width, height, okT, okL, okR) ==
    /\ instance
    /\ CanCreate({"tracker", "lens", "renderer"})
    /\ screen_width_' = width
    /\ screen_height_' = height
    /\ op_calls' = SetScreenParamsCalls
    /\ destroyed' = Destroyed(op_calls')
    /\ InitializeCardboard(okT, okL, okR)
    /\ created' = Created({"tracker", "lens", "renderer"})
    /\ last_op' = "SetScreenParams" /\ op_pre' = Pre /\ op_args' = <<width, height>>
    /\ UNCHANGED <<instance, program_, vertex_buffer_, texture_id_, frame_updated_,
                   processed_frame_, video_uri_, frame_size, paused_trackers,
                   texture_data, texture_size, histVars, fxVars>>

\* -------------------------------------------------------------- pause, resume, hooks
CoreOnPause ==
    /\ instance
    /\ op_calls' = Opt(head_tracker_ # 0,
                       Call("CardboardHeadTracker_pause", "tracker", head_tracker_))
    /\ paused_trackers' = IF head_tracker_ # 0
                          THEN paused_trackers \cup {head_tracker_}
                          ELSE paused_trackers
    /\ host_paused' = TRUE
    /\ last_op' = "OnPause" /\ op_pre' = Pre /\ op_args' = <<>>
    /\ UNCHANGED <<appVars, created, destroyed, texture_data, texture_size,
                   latest_frame, last_uploaded, fxVars>>

CoreOnResume ==
    /\ instance
    /\ op_calls' = Opt(head_tracker_ # 0,
                       Call("CardboardHeadTracker_resume", "tracker", head_tracker_))
    /\ paused_trackers' = paused_trackers \ {head_tracker_}
    /\ host_paused' = FALSE
    /\ last_op' = "OnResume" /\ op_pre' = Pre /\ op_args' = <<>>
    /\ UNCHANGED <<appVars, created, destroyed, texture_data, texture_size,
                   latest_frame, last_uploaded, fxVars>>

\* OnTriggerEvent: a log line.
CoreOnTriggerEvent ==
    /\ instance
    /\ last_op' = "OnTriggerEvent" /\ op_calls' = <<>> /\ op_pre' = Pre /\ op_args' = <<>>
    /\ UNCHANGED <<appVars, worldVars, histVars, fxVars>>

\* A SetVideoUri that takes the new URI as the start of a new video and drops
\* the frame of the old one.
CoreSetVideoUri_DropsFrame(uri) ==
    /\ instance
    /\ video_uri_' = uri
    /\ frame_updated_' = FALSE
    /\ last_op' = "SetVideoUri" /\ op_calls' = <<>> /\ op_pre' = Pre /\ op_args' = <<>>
    /\ UNCHANGED <<instance, program_, vertex_buffer_, texture_id_, lens_distortion_,
                   distortion_renderer_, head_tracker_, screen_width_,
                   screen_height_, processed_frame_, frame_size, worldVars, histVars,
                   fxVars>>

\* SetVideoUri: video_uri_ = uri.
CoreSetVideoUri(uri) ==
    /\ instance
    /\ video_uri_' = uri
    /\ last_op' = "SetVideoUri" /\ op_calls' = <<>> /\ op_pre' = Pre /\ op_args' = <<>>
    /\ UNCHANGED <<instance, program_, vertex_buffer_, texture_id_, lens_distortion_,
                   distortion_renderer_, head_tracker_, frame_updated_, screen_width_,
                   screen_height_, processed_frame_, frame_size, worldVars, histVars,
                   fxVars>>

\* -------------------------------------------------------------- the frame source
\* nativeUpdateVideoTexture -> UpdateVideoTexture, on the decoder's callback
\* thread: the pushed frame, of the given size, becomes the latest one and the
\* flag is set.
PushFrame(size) ==
    /\ instance
    /\ latest_frame < MaxFrames
    /\ latest_frame' = latest_frame + 1
    /\ processed_frame_' = latest_frame + 1
    /\ frame_size' = size
    /\ frame_updated_' = TRUE
    /\ UNCHANGED <<instance, program_, vertex_buffer_, texture_id_, lens_distortion_,
                   distortion_renderer_, head_tracker_, screen_width_, screen_height_,
                   video_uri_, worldVars, glVars, opVars, last_uploaded, host_paused,
                   hostVars, fxVars>>

UpdateVideoTexture == \E size \in FrameSizes : PushFrame(size)

\* -------------------------------------------------------------- the draw tick
GlIdle == gl_pc \in {"idle", "done"}

\* The head poses the tracker reports: at rest, turned.
Poses == {"rest", "turned"}
\* CardboardHeadTracker_getPose on the tracker `h`, which returned `pose`.
GetPoseCall(h, pose) ==
    [fn |-> "CardboardHeadTracker_getPose", kind |-> "tracker", h |-> h, pose |-> pose]

\* An OnDrawFrame whose early return tests the distortion renderer alone.
CoreDrawBegin_RendererGuardOnly ==
    /\ instance
    /\ GlIdle
    /\ tick_flag0' = frame_updated_
    /\ tick_clears' = 0
    /\ tick_paused0' = host_paused
    /\ IF distortion_renderer_ = 0
       THEN /\ tick_calls' = <<>>
            /\ gl_pc' = "done"
       ELSE /\ \E pose \in Poses : tick_calls' = <<GetPoseCall(head_tracker_, pose)>>
            /\ gl_pc' = "check"
    /\ op_calls' = <<>> /\ op_pre' = NoPre
    /\ UNCHANGED <<appVars, worldVars, last_op, op_args, histVars, fxVars>>

\* OnDrawFrame up to the call of RenderVideoFrame: the early return, else the
\* head-pose query, whose result no field and no local variable receives.
CoreDrawBegin ==
    /\ instance
    /\ GlIdle
    /\ tick_flag0' = frame_updated_
    /\ tick_clears' = 0
    /\ tick_paused0' = host_paused
    /\ IF program_ = 0 \/ distortion_renderer_ = 0
       THEN /\ tick_calls' = <<>>
            /\ gl_pc' = "done"
       ELSE /\ \E pose \in Poses : tick_calls' = <<GetPoseCall(head_tracker_, pose)>>
            /\ gl_pc' = "check"
    /\ op_calls' = <<>> /\ op_pre' = NoPre
    /\ UNCHANGED <<appVars, worldVars, last_op, op_args, histVars, fxVars>>

\* RenderVideoFrame, the test of frame_updated_.
RenderVideoFrame_Check ==
    /\ gl_pc = "check"
    /\ gl_pc' = IF frame_updated_ THEN "upload" ELSE "render"
    /\ UNCHANGED <<appVars, worldVars, tick_calls, tick_flag0, tick_clears,
                   tick_paused0, opVars, histVars, hostVars, fxVars>>

\* A tick step that deletes the texture and generates another for the upload.
RenderVideoFrame_Upload_NewTexture ==
    /\ gl_pc = "upload"
    /\ texture_id_' = (texture_id_ % MaxCreate) + 1
    /\ tick_calls' = tick_calls \o <<Call("glBindTexture", "texture", texture_id_')>>
    /\ gl_pc' = "clear"
    /\ UNCHANGED <<instance, program_, vertex_buffer_, lens_distortion_,
                   distortion_renderer_, head_tracker_, frame_updated_, screen_width_,
                   screen_height_, processed_frame_, video_uri_, frame_size, worldVars,
                   tick_flag0, tick_clears, tick_paused0, opVars, histVars, hostVars,
                   fxVars>>

\* RenderVideoFrame, the bind and the upload of a non-empty processed_frame_.
RenderVideoFrame_Upload ==
    /\ gl_pc = "upload"
    /\ tick_calls' = tick_calls
                     \o <<Call("glBindTexture", "texture", texture_id_)>>
                     \o Opt(processed_frame_ # 0,
                            SubImageCall(texture_id_, frame_size[1], frame_size[2]))
    /\ texture_data' = IF processed_frame_ # 0 THEN processed_frame_ ELSE texture_data
    /\ last_uploaded' = IF processed_frame_ # 0 THEN processed_frame_ ELSE last_uploaded
    /\ gl_pc' = "clear"
    /\ UNCHANGED <<appVars, created, destroyed, paused_trackers, texture_size,
                   tick_flag0, tick_clears, tick_paused0, opVars, latest_frame,
                   host_paused, hostVars, fxVars>>

\* RenderVideoFrame, frame_updated_ = false.
RenderVideoFrame_Clear ==
    /\ gl_pc = "clear"
    /\ frame_updated_' = FALSE
    /\ tick_clears' = tick_clears + 1
    /\ gl_pc' = "render"
    /\ UNCHANGED <<instance, program_, vertex_buffer_, texture_id_, lens_distortion_,
                   distortion_renderer_, head_tracker_, screen_width_, screen_height_,
                   processed_frame_, video_uri_, frame_size, worldVars, tick_calls,
                   tick_flag0, tick_paused0, opVars, histVars, hostVars, fxVars>>

\* CardboardDistortionRenderer_renderEyeToDisplay(h, texture, 0, 0, 0, width,
\* height, 0, 0, width, height): the one call draws the texture, both eyes'
\* halves of it, through the distortion mesh over the whole display.
RenderCall(h, texture, width, height) ==
    [fn |-> "CardboardDistortionRenderer_renderEyeToDisplay", kind |-> "renderer",
     h |-> h, texture |-> texture, width |-> width, height |-> height]

\* A tick that applies the pose it fetched to the render.
DrawRender_PoseApplied ==
    /\ gl_pc = "render"
    /\ tick_calls' = tick_calls
                     \o <<[fn |-> "CardboardDistortionRenderer_renderEyeToDisplay",
                           kind |-> "renderer", h |-> distortion_renderer_,
                           texture |-> texture_id_, width |-> screen_width_,
                           height |-> screen_height_, pose |-> tick_calls[1].pose]>>
    /\ gl_pc' = "done"
    /\ UNCHANGED <<appVars, worldVars, tick_flag0, tick_clears, tick_paused0,
                   opVars, histVars, hostVars, fxVars>>

\* A tick that renders each eye with a call of its own, the left one before
\* the upload.
DrawRender_PerEye ==
    /\ gl_pc = "render"
    /\ tick_calls' = <<RenderCall(distortion_renderer_, texture_id_,
                                  screen_width_, screen_height_)>>
                     \o tick_calls
                     \o <<RenderCall(distortion_renderer_, texture_id_,
                                     screen_width_, screen_height_)>>
    /\ gl_pc' = "done"
    /\ UNCHANGED <<appVars, worldVars, tick_flag0, tick_clears, tick_paused0,
                   opVars, histVars, hostVars, fxVars>>

\* OnDrawFrame, the render through the distortion renderer that ends the tick.
DrawRender ==
    /\ gl_pc = "render"
    /\ tick_calls' = tick_calls
                     \o <<RenderCall(distortion_renderer_, texture_id_,
                                     screen_width_, screen_height_)>>
    /\ gl_pc' = "done"
    /\ UNCHANGED <<appVars, worldVars, tick_flag0, tick_clears, tick_paused0,
                   opVars, histVars, hostVars, fxVars>>

\* -------------------------------------------------------------- the object alone
\* The entry points of the surface lifecycle called in any order from one
\* thread, between draw ticks; frames are pushed from the decoder's thread at
\* any moment.
Sequential(op) ==
    /\ GlIdle
    /\ op
    /\ gl_pc' = "idle"
    /\ tick_calls' = <<>> /\ tick_flag0' = FALSE /\ tick_clears' = 0
    /\ tick_paused0' = FALSE
    /\ UNCHANGED hostVars

nativeOnCreate == Sequential(CoreNativeOnCreate)
nativeOnDestroy == Sequential(CoreNativeOnDestroy)
nativeOnSurfaceCreated ==
    \E okP, okT, okL, okR \in BOOLEAN : Sequential(CoreOnSurfaceCreated(okP, okT, okL, okR))
nativeSetScreenParams ==
    \E size \in ScreenSizes : \E okT, okL, okR \in BOOLEAN :
        Sequential(CoreSetScreenParams(size[1], size[2], okT, okL, okR))
nativeOnDrawFrame == CoreDrawBegin /\ UNCHANGED hostVars

Next ==
    \/ nativeOnCreate
    \/ nativeOnDestroy
    \/ nativeOnSurfaceCreated
    \/ nativeSetScreenParams
    \/ UpdateVideoTexture
    \/ nativeOnDrawFrame
    \/ RenderVideoFrame_Check
    \/ RenderVideoFrame_Upload
    \/ RenderVideoFrame_Clear
    \/ DrawRender

Spec == Init /\ [][Next]_vars

\* -------------------------------------------------------------- the hooks
\* The URIs handed to nativeSetVideoUri.
Uris == {1, 2}
nativeSetVideoUri == \E uri \in Uris : Sequential(CoreSetVideoUri(uri))
OnTriggerEvent == Sequential(CoreOnTriggerEvent)

\* The instance the hooks are called on.
HookStart == ~instance /\ nativeOnCreate

\* The hooks called at any moment of the surface lifecycle of one instance,
\* with frames pending or not, outside draw ticks.
HookNext ==
    \/ HookStart
    \/ nativeOnSurfaceCreated
    \/ nativeSetScreenParams
    \/ UpdateVideoTexture
    \/ nativeSetVideoUri
    \/ OnTriggerEvent

HookSpec == Init /\ [][HookNext]_vars

\* -------------------------------------------------------------- effect settings
\* The configurations the settings screen can hand over (values in 1/100).
SettingsChoices ==
    {DefaultSettings,
     [DefaultSettings EXCEPT !.left_eye_enabled = FALSE, !.left_eye_contrast = 200,
                             !.right_eye_enabled = TRUE, !.right_eye_fog_intensity = 50],
     [DefaultSettings EXCEPT !.left_eye_red_tint = 50, !.right_eye_enabled = TRUE,
                             !.right_eye_directional = -10]}

\* SetEffectSettings: effect_settings_ = settings.
CoreSetEffectSettings(settings) ==
    /\ instance
    /\ settings_gen < MaxSettingsCalls
    /\ effect_settings_' = settings
    /\ settings_gen' = settings_gen + 1
    /\ last_op' = "SetEffectSettings" /\ op_calls' = <<>> /\ op_pre' = Pre /\ op_args' = <<>>
    /\ UNCHANGED <<appVars, worldVars, histVars, proc_pc, proc_reads, frame_in, frame_out>>

\* SettingsActivity.getEffectSettings: the twelve preferences, read into the
\* fields of the Java EffectSettings.
getEffectSettings ==
    [leftEyeEnabled |-> preferences.left_eye_enabled,
     leftEyeContrast |-> preferences.left_eye_contrast,
     leftEyeRedTint |-> preferences.left_eye_red_tint,
     leftEyeGreenTint |-> preferences.left_eye_green_tint,
     leftEyeFogIntensity |-> preferences.left_eye_fog_intensity,
     leftEyeDirectional |-> preferences.left_eye_directional,
     rightEyeEnabled |-> preferences.right_eye_enabled,
     rightEyeContrast |-> preferences.right_eye_contrast,
     rightEyeRedTint |-> preferences.right_eye_red_tint,
     rightEyeGreenTint |-> preferences.right_eye_green_tint,
     rightEyeFogIntensity |-> preferences.right_eye_fog_intensity,
     rightEyeDirectional |-> preferences.right_eye_directional]

\* The arguments loadAndApplyEffectSettings passes to nativeSetEffectSettings
\* after nativeApp, in the order of the call.
EffectSettingsArgs(settings) ==
    <<settings.leftEyeEnabled, settings.leftEyeContrast, settings.leftEyeRedTint,
      settings.leftEyeGreenTint, settings.leftEyeFogIntensity, settings.leftEyeDirectional,
      settings.rightEyeEnabled, settings.rightEyeContrast, settings.rightEyeRedTint,
      settings.rightEyeGreenTint, settings.rightEyeFogIntensity,
      settings.rightEyeDirectional>>

\* A bridge that stores the tint arguments in each other's field.
NativeSettings_TintsSwapped(args) ==
    [left_eye_enabled |-> args[1], left_eye_contrast |-> args[2],
     left_eye_red_tint |-> args[4], left_eye_green_tint |-> args[3],
     left_eye_fog_intensity |-> args[5], left_eye_directional |-> args[6],
     right_eye_enabled |-> args[7], right_eye_contrast |-> args[8],
     right_eye_red_tint |-> args[10], right_eye_green_tint |-> args[9],
     right_eye_fog_intensity |-> args[11], right_eye_directional |-> args[12]]

\* nativeSetEffectSettings: the cardboard::EffectSettings built from the
\* arguments left_enabled, ..., right_directional.
NativeSettings(args) ==
    [left_eye_enabled |-> args[1], left_eye_contrast |-> args[2],
     left_eye_red_tint |-> args[3], left_eye_green_tint |-> args[4],
     left_eye_fog_intensity |-> args[5], left_eye_directional |-> args[6],
     right_eye_enabled |-> args[7], right_eye_contrast |-> args[8],
     right_eye_red_tint |-> args[9], right_eye_green_tint |-> args[10],
     right_eye_fog_intensity |-> args[11], right_eye_directional |-> args[12]]

\* VrVideoActivity.loadAndApplyEffectSettings.
loadAndApplyEffectSettings ==
    CoreSetEffectSettings(NativeSettings(EffectSettingsArgs(getEffectSettings)))

\* -------------------------------------------------------------- the host activity
\* VrVideoActivity on the activity thread, its GLSurfaceView.Renderer on the
\* render thread.  The activity is created, resumed and paused any number of
\* times, and destroyed after a pause or before its first resume.  The render
\* thread runs the Renderer's callbacks, one at a time, from glView.onResume()
\* until glView.onPause(), which returns once the callback in progress has ended.
OnActivityThread(op) ==
    /\ op
    /\ UNCHANGED <<glVars, gl_paused, surf, preferences, settings_screen, touchVars, other>>

\* onCreate with no video URI in the intent: finish(), nothing is set up.
onCreate_NoUri ==
    /\ act = "none"
    /\ act' = "finishing"
    /\ UNCHANGED <<appVars, worldVars, glVars, opVars, histVars, gl_paused, surf, uiVars, fxVars>>

\* onCreate: nativeOnCreate(getAssets()).
onCreate_Native ==
    /\ act = "none"
    /\ OnActivityThread(CoreNativeOnCreate)
    /\ act' = "onCreate_uri"
    /\ UNCHANGED playVars

\* onCreate: nativeSetVideoUri(nativeApp, videoUri.toString()).
onCreate_SetVideoUri ==
    /\ act = "onCreate_uri"
    /\ OnActivityThread(CoreSetVideoUri(1))
    /\ act' = "onCreate_settings"
    /\ UNCHANGED playVars

\* onCreate: loadAndApplyEffectSettings(), then the GLSurfaceView gets its
\* Renderer, and setupVideoPlayer builds the player, prepares it and plays.
onCreate_Settings ==
    /\ act = "onCreate_settings"
    /\ OnActivityThread(loadAndApplyEffectSettings)
    /\ exoPlayer' = "playing"
    /\ act' = "created"
    /\ UNCHANGED <<isPlaying, duration>>

\* An onResume that plays whatever isPlaying says.
onResume_AlwaysPlays ==
    /\ act \in {"created", "paused"}
    /\ settings_screen = "closed"
    /\ other \in {"none", "paused", "destroyed"}
    /\ exoPlayer' = IF exoPlayer # "null" THEN "playing" ELSE exoPlayer
    /\ CoreOnResume
    /\ gl_paused' = FALSE
    /\ act' = "resumed"
    /\ UNCHANGED <<glVars, surf, preferences, settings_screen, isPlaying, duration,
                   touchVars, other>>

\* onResume: exoPlayer.play() if there is a player and isPlaying;
\* nativeOnResume(nativeApp); glView.onResume().  A result of the settings
\* screen is delivered before the activity resumes, and an activity started
\* over this one is paused before this one resumes.
onResume ==
    /\ act \in {"created", "paused"}
    /\ settings_screen = "closed"
    /\ other \in {"none", "paused", "destroyed"}
    /\ exoPlayer' = IF exoPlayer # "null" /\ isPlaying THEN "playing" ELSE exoPlayer
    /\ CoreOnResume
    /\ gl_paused' = FALSE
    /\ act' = "resumed"
    /\ UNCHANGED <<glVars, surf, preferences, settings_screen, isPlaying, duration,
                   touchVars, other>>

\* onPause up to nativeOnPause(nativeApp): exoPlayer.pause() if there is a
\* player; the render thread is still running.
onPause_Native ==
    /\ act = "resumed"
    /\ exoPlayer' = IF exoPlayer # "null" THEN "paused" ELSE exoPlayer
    /\ OnActivityThread(CoreOnPause)
    /\ act' = "pausing"
    /\ UNCHANGED <<isPlaying, duration>>

\* An onPause that does not call glView.onPause(): the render thread goes on.
onPause_WithoutGlViewPause ==
    /\ act = "pausing"
    /\ act' = "paused"
    /\ UNCHANGED <<appVars, worldVars, glVars, opVars, histVars, gl_paused, surf, uiVars, fxVars>>

\* onPause: glView.onPause() waits for the render thread to stop; the EGL
\* context, and with it the surface, is given up.
onPause_GlView ==
    /\ act = "pausing"
    /\ GlIdle
    /\ gl_paused' = TRUE
    /\ surf' = "none"
    /\ act' = "paused"
    /\ UNCHANGED <<appVars, worldVars, glVars, opVars, histVars, uiVars, fxVars>>

\* onDestroy up to the call of nativeOnDestroy(nativeApp): exoPlayer.release()
\* if there is a player.
onDestroy_Begin ==
    /\ act \in {"created", "paused", "finishing"}
    /\ exoPlayer' = IF exoPlayer # "null" THEN "released" ELSE exoPlayer
    /\ act' = "destroying"
    /\ UNCHANGED <<appVars, worldVars, glVars, opVars, histVars, gl_paused, surf,
                   preferences, settings_screen, isPlaying, duration, touchVars, other, fxVars>>

\* onDestroy: nativeOnDestroy runs the destructor, if there is an instance.
onDestroy_Native ==
    /\ act = "destroying"
    /\ IF instance
       THEN OnActivityThread(CoreNativeOnDestroy)
       ELSE UNCHANGED <<appVars, worldVars, glVars, opVars, histVars, gl_paused, surf,
                        preferences, settings_screen, touchVars, other, fxVars>>
    /\ act' = "destroyed"
    /\ UNCHANGED playVars

\* A Renderer callback other than onDrawFrame, on the render thread between ticks.
OnRenderThread(op) ==
    /\ ~gl_paused
    /\ GlIdle
    /\ op
    /\ gl_pc' = "idle"
    /\ tick_calls' = <<>> /\ tick_flag0' = FALSE /\ tick_clears' = 0
    /\ tick_paused0' = FALSE
    /\ UNCHANGED <<act, gl_paused, uiVars>>

Renderer_onSurfaceCreated ==
    /\ surf = "none"
    /\ \E okP, okT, okL, okR \in BOOLEAN :
           OnRenderThread(CoreOnSurfaceCreated(okP, okT, okL, okR))
    /\ surf' = "created"

Renderer_onSurfaceChanged ==
    /\ surf \in {"created", "sized"}
    /\ \E size \in ScreenSizes : \E okT, okL, okR \in BOOLEAN :
           OnRenderThread(CoreSetScreenParams(size[1], size[2], okT, okL, okR))
    /\ surf' = "sized"

Renderer_onDrawFrame ==
    /\ ~gl_paused
    /\ surf = "sized"
    /\ CoreDrawBegin
    /\ UNCHANGED hostVars

\* The frame-available listener of the video surface: ExoPlayer plays the one
\* video of the intent, whose frames all have the video's size.
onFrameAvailable == PushFrame(<<1024, 512>>)

HostNext ==
    \/ onCreate_NoUri
    \/ onCreate_Native
    \/ onCreate_SetVideoUri
    \/ onCreate_Settings
    \/ onResume
    \/ onPause_Native
    \/ onPause_GlView
    \/ onDestroy_Begin
    \/ onDestroy_Native
    \/ Renderer_onSurfaceCreated
    \/ Renderer_onSurfaceChanged
    \/ Renderer_onDrawFrame
    \/ RenderVideoFrame_Check
    \/ RenderVideoFrame_Upload
    \/ RenderVideoFrame_Clear
    \/ DrawRender
    \/ onFrameAvailable

HostSpec == Init /\ [][HostNext]_vars

\* -------------------------------------------------------------- two activities, one bridge
\* A second VrVideoActivity started over the first one.  The bridge keeps one
\* instance in g_video_player_app for both: the native methods ignore the
\* handle they are given.  The framework pauses an activity before it creates
\* the one started over it, and destroys a finished activity after the one
\* below it has resumed.  Only the second activity's calls on the activity
\* thread are followed.
OnOtherActivity(op) ==
    /\ op
    /\ UNCHANGED <<glVars, act, gl_paused, surf, preferences, settings_screen,
                   playVars, touchVars>>

\* onCreate of the second activity: nativeOnCreate(getAssets()).
other_onCreate_Native ==
    /\ act = "paused" /\ settings_screen = "closed"
    /\ other = "none"
    /\ OnOtherActivity(CoreNativeOnCreate)
    /\ other' = "onCreate_uri"

other_onCreate_SetVideoUri ==
    /\ other = "onCreate_uri"
    /\ OnOtherActivity(CoreSetVideoUri(2))
    /\ other' = "onCreate_settings"

other_onCreate_Settings ==
    /\ other = "onCreate_settings"
    /\ OnOtherActivity(loadAndApplyEffectSettings)
    /\ other' = "created"

other_onResume ==
    /\ other = "created"
    /\ OnOtherActivity(CoreOnResume)
    /\ other' = "resumed"

other_onPause ==
    /\ other = "resumed"
    /\ OnOtherActivity(CoreOnPause)
    /\ other' = "paused"

\* onDestroy of the second activity, finished: nativeOnDestroy(nativeApp),
\* once the first activity has resumed.
other_onDestroy ==
    /\ other = "paused"
    /\ act = "resumed"
    /\ IF instance
       THEN OnOtherActivity(CoreNativeOnDestroy)
       ELSE UNCHANGED <<appVars, worldVars, glVars, opVars, histVars, act, gl_paused,
                        surf, preferences, settings_screen, playVars, touchVars, fxVars>>
    /\ other' = "destroyed"

StackNext ==
    \/ onCreate_Native
    \/ onCreate_SetVideoUri
    \/ onCreate_Settings
    \/ onResume
    \/ onPause_Native
    \/ onPause_GlView
    \/ Renderer_onSurfaceCreated
    \/ Renderer_onSurfaceChanged
    \/ Renderer_onDrawFrame
    \/ RenderVideoFrame_Check
    \/ RenderVideoFrame_Upload
    \/ RenderVideoFrame_Clear
    \/ DrawRender
    \/ onFrameAvailable
    \/ other_onCreate_Native
    \/ other_onCreate_SetVideoUri
    \/ other_onCreate_Settings
    \/ other_onResume
    \/ other_onPause
    \/ other_onDestroy

StackSpec == Init /\ [][StackNext]_vars

\* -------------------------------------------------------------- one processing pass
\* ProcessVideoFrame and ApplyEffects read effect_settings_ in place, four
\* times in a pass, while SetEffectSettings may replace it from the UI thread.
\* proc_reads logs each read: where, the writer of what was read, the values.
Read(at, fields) ==
    [at |-> at, gen |-> settings_gen, val |-> [f \in fields |-> effect_settings_[f]]]
LeftFields ==
    {"left_eye_enabled", "left_eye_contrast", "left_eye_red_tint", "left_eye_green_tint",
     "left_eye_fog_intensity", "left_eye_directional"}
RightFields ==
    {"right_eye_enabled", "right_eye_contrast", "right_eye_red_tint",
     "right_eye_green_tint", "right_eye_fog_intensity", "right_eye_directional"}
ProcStep(next, reads) ==
    /\ proc_pc' = next
    /\ proc_reads' = reads
    /\ UNCHANGED <<appVars, worldVars, glVars, opVars, histVars, hostVars,
                   effect_settings_, settings_gen, frame_in, frame_out>>

\* ProcessVideoFrame: an empty input returns at once.
ProcessVideoFrame_Begin(empty) ==
    /\ instance
    /\ proc_pc \in {"idle", "done"}
    /\ ProcStep(IF empty THEN "done" ELSE "left_enabled", <<>>)

\* ProcessVideoFrame: if (effect_settings_.left_eye_enabled).
ProcessVideoFrame_LeftEnabled ==
    /\ proc_pc = "left_enabled"
    /\ ProcStep(IF effect_settings_.left_eye_enabled THEN "left_effects" ELSE "right_enabled",
                Append(proc_reads, Read("left_enabled", {"left_eye_enabled"})))

\* ApplyEffects(left_eye, ..., true): settings built from the left-eye fields.
ApplyEffects_Left ==
    /\ proc_pc = "left_effects"
    /\ ProcStep("right_enabled", Append(proc_reads, Read("left_effects", LeftFields)))

\* ProcessVideoFrame: if (effect_settings_.right_eye_enabled).
ProcessVideoFrame_RightEnabled ==
    /\ proc_pc = "right_enabled"
    /\ ProcStep(IF effect_settings_.right_eye_enabled THEN "right_effects" ELSE "done",
                Append(proc_reads, Read("right_enabled", {"right_eye_enabled"})))

\* ApplyEffects(right_eye, ..., false): settings built from the right-eye fields.
ApplyEffects_Right ==
    /\ proc_pc = "right_effects"
    /\ ProcStep("done", Append(proc_reads, Read("right_effects", RightFields)))

nativeSetEffectSettings ==
    /\ \E settings \in SettingsChoices : CoreSetEffectSettings(settings)
    /\ UNCHANGED <<glVars, hostVars>>

ProcessVideoFrame == \E empty \in BOOLEAN : ProcessVideoFrame_Begin(empty)

\* The instance whose settings and passes are followed.
EffectsStart == ~instance /\ nativeOnCreate

EffectsNext ==
    \/ EffectsStart
    \/ nativeSetEffectSettings
    \/ ProcessVideoFrame
    \/ ProcessVideoFrame_LeftEnabled
    \/ ApplyEffects_Left
    \/ ProcessVideoFrame_RightEnabled
    \/ ApplyEffects_Right

EffectsSpec == Init /\ [][EffectsNext]_vars

\* -------------------------------------------------------------- the settings screen
\* The settings button starts SettingsActivity for a result, over the player.
settingsButton_onClick ==
    /\ act = "resumed"
    /\ settings_screen = "closed"
    /\ settings_screen' = "open"
    /\ UNCHANGED <<appVars, worldVars, glVars, opVars, histVars, act, gl_paused, surf,
                   preferences, playVars, touchVars, other, fxVars>>

\* The changes the user makes to the controls: the preference, its new value.
Controls ==
    {<<"left_eye_enabled", FALSE>>, <<"left_eye_enabled", TRUE>>,
     <<"left_eye_red_tint", 50>>, <<"left_eye_fog_intensity", 0>>,
     <<"right_eye_enabled", TRUE>>, <<"right_eye_green_tint", -50>>}
\* updateEffectAvailability: an eye's sliders are enabled while its switch is on.
ControlEnabled(key) ==
    IF key \in LeftFields \ {"left_eye_enabled"} THEN preferences.left_eye_enabled
    ELSE IF key \in RightFields \ {"right_eye_enabled"} THEN preferences.right_eye_enabled
    ELSE TRUE

\* The listener of a switch or of a slider moved by the user: saveSetting(key,
\* value) puts the value in the preferences, and nothing else.
saveSetting(key, value) ==
    /\ settings_screen = "open"
    /\ act = "paused"
    /\ ControlEnabled(key)
    /\ preferences[key] # value
    /\ preferences' = [preferences EXCEPT ![key] = value]
    /\ UNCHANGED <<appVars, worldVars, glVars, opVars, histVars, act, gl_paused, surf,
                   settings_screen, playVars, touchVars, other, fxVars>>

onControlChanged == \E control \in Controls : saveSetting(control[1], control[2])

\* SettingsActivity.onBackPressed (also the toolbar's home item):
\* setResult(RESULT_OK), and the activity finishes.
SettingsActivity_onBackPressed ==
    /\ settings_screen = "open"
    /\ act = "paused"
    /\ settings_screen' = "result_ok"
    /\ UNCHANGED <<appVars, worldVars, glVars, opVars, histVars, act, gl_paused, surf,
                   preferences, playVars, touchVars, other, fxVars>>

\* VrVideoActivity.onActivityResult(100, RESULT_OK, ...):
\* loadAndApplyEffectSettings().
onActivityResult ==
    /\ settings_screen = "result_ok"
    /\ act = "paused"
    /\ loadAndApplyEffectSettings
    /\ settings_screen' = "closed"
    /\ UNCHANGED <<glVars, act, gl_paused, surf, preferences, playVars, touchVars, other>>

\* The player, created with a video, and its settings screen.
SettingsNext ==
    \/ onCreate_Native
    \/ onCreate_SetVideoUri
    \/ onCreate_Settings
    \/ onResume
    \/ onPause_Native
    \/ onPause_GlView
    \/ settingsButton_onClick
    \/ onControlChanged
    \/ SettingsActivity_onBackPressed
    \/ onActivityResult

SettingsSpec == Init /\ [][SettingsNext]_vars

\* -------------------------------------------------------------- touch and playback
\* The OnTouchListener of the GLSurfaceView (setupTouchHandling), the
\* long-press Runnable on the main thread's Handler, togglePlayPause and
\* handleHeadTiltSeek.  The view gets touch events while the activity is
\* resumed; a gesture ends with ACTION_UP, or with ACTION_CANCEL when the
\* framework takes it away from the view.
OnMainThread(playback, touching) ==
    /\ playback
    /\ touching
    /\ UNCHANGED <<appVars, worldVars, glVars, opVars, histVars, act, gl_paused, surf,
                   preferences, settings_screen, other, fxVars>>

\* togglePlayPause.
togglePlayPause ==
    /\ IF exoPlayer # "null"
       THEN IF isPlaying
            THEN exoPlayer' = "paused" /\ isPlaying' = FALSE
            ELSE exoPlayer' = "playing" /\ isPlaying' = TRUE
       ELSE UNCHANGED <<exoPlayer, isPlaying>>
    /\ UNCHANGED duration

\* The player has read enough of the video to know its duration.
onPlayerReady ==
    /\ exoPlayer \in {"playing", "paused"}
    /\ duration = TIME_UNSET
    /\ duration' = VideoLength
    /\ OnMainThread(UNCHANGED <<isPlaying, exoPlayer>>, UNCHANGED touchVars)

\* The clock moves on.
Tick ==
    /\ now < StartTime + MaxTicks * TimeStep
    /\ now' = now + TimeStep
    /\ OnMainThread(UNCHANGED playVars,
                    UNCHANGED <<isLongPress, longPressRunnable, posted, touch,
                                lastSeekTime, last_seek>>)

\* case MotionEvent.ACTION_DOWN.
ACTION_DOWN ==
    /\ act = "resumed" /\ touch = "up"
    /\ longPressRunnable < MaxTouches
    /\ OnMainThread(UNCHANGED playVars,
           /\ isLongPress' = FALSE
           /\ longPressRunnable' = longPressRunnable + 1
           /\ posted' = posted \cup {[id |-> longPressRunnable + 1,
                                      due |-> now + LongPressDelay]}
           /\ touch' = "down"
           /\ UNCHANGED <<now, lastSeekTime, last_seek>>)

\* The Handler runs a posted Runnable once it is due: isLongPress = true.
longPressRunnable_run ==
    \E r \in posted :
        /\ now >= r.due
        /\ OnMainThread(UNCHANGED playVars,
               /\ isLongPress' = TRUE
               /\ posted' = posted \ {r}
               /\ UNCHANGED <<longPressRunnable, touch, now, lastSeekTime, last_seek>>)


\* longPressHandler.removeCallbacks(longPressRunnable): the posts of the
\* Runnable the field refers to.
removeCallbacks == {r \in posted : r.id # longPressRunnable}

\* case MotionEvent.ACTION_UP.
ACTION_UP ==
    /\ act = "resumed" /\ touch = "down"
    /\ OnMainThread(IF ~isLongPress THEN togglePlayPause ELSE UNCHANGED playVars,
           /\ posted' = removeCallbacks
           /\ touch' = "up"
           /\ UNCHANGED <<isLongPress, longPressRunnable, now, lastSeekTime, last_seek>>)

\* MotionEvent.ACTION_CANCEL is none of the listener's cases: it returns false.
ACTION_CANCEL ==
    /\ touch = "down"
    /\ touch' = "up"
    /\ OnMainThread(UNCHANGED playVars,
                    UNCHANGED <<isLongPress, longPressRunnable, posted, now,
                                lastSeekTime, last_seek>>)

\* The tilt angles of a move: Math.toDegrees(Math.atan2(deltaY, deltaX)).
Tilts == {-40000, -10500, 10000, 10500, 40000}
\* What exoPlayer.getCurrentPosition() returns.
Positions == {0, 5000, 55000}


\* The position handleHeadTiltSeek asks for: seekTime is |tiltAngle| * 1000
\* ms per degree; Math.max(0, currentPosition - seekTime) for a negative
\* angle, Math.min(duration, currentPosition + seekTime) otherwise.
SeekPosition(tiltAngle, currentPosition) ==
    IF tiltAngle < 0
    THEN IF currentPosition + tiltAngle > 0 THEN currentPosition + tiltAngle ELSE 0
    ELSE IF duration < currentPosition + tiltAngle
         THEN duration ELSE currentPosition + tiltAngle


\* Math.abs(tiltAngle) > 10 and currentTime - lastSeekTime > SEEK_THRESHOLD.
SeekAllowed(tiltAngle) ==
    /\ (IF tiltAngle < 0 THEN -tiltAngle ELSE tiltAngle) > TiltThreshold
    /\ now - lastSeekTime > SEEK_THRESHOLD

\* handleHeadTiltSeek(event).
handleHeadTiltSeek(tiltAngle, currentPosition) ==
    IF exoPlayer # "null" /\ SeekAllowed(tiltAngle)
    THEN /\ lastSeekTime' = now
         /\ last_seek' = [tilt |-> tiltAngle, from |-> currentPosition,
                          to |-> SeekPosition(tiltAngle, currentPosition),
                          duration |-> duration]
    ELSE UNCHANGED <<lastSeekTime, last_seek>>

\* case MotionEvent.ACTION_MOVE.
ACTION_MOVE ==
    /\ act = "resumed" /\ touch = "down"
    /\ \E tiltAngle \in Tilts : \E currentPosition \in Positions :
           OnMainThread(UNCHANGED playVars,
               /\ IF isLongPress
                  THEN handleHeadTiltSeek(tiltAngle, currentPosition)
                  ELSE UNCHANGED <<lastSeekTime, last_seek>>
               /\ UNCHANGED <<isLongPress, longPressRunnable, posted, touch, now>>)

\* The player from its creation on: the activity's lifecycle, the clock and
\* the touch events.
TouchNext ==
    \/ onCreate_Native
    \/ onCreate_SetVideoUri
    \/ onCreate_Settings
    \/ onResume
    \/ onPause_Native
    \/ onPause_GlView
    \/ onPlayerReady
    \/ Tick
    \/ ACTION_DOWN
    \/ longPressRunnable_run
    \/ ACTION_UP
    \/ ACTION_CANCEL
    \/ ACTION_MOVE

TouchSpec == Init /\ [][TouchNext]_vars

\* -------------------------------------------------------------- the effect processor
\* ProcessVideoFrame and ApplyEffects as functions of the input frame and the
\* settings.  A frame is one row of pixels, a pixel is <<b, g, r>> with 8-bit
\* channels.  A CV_32F value is an integer in units of 1/One, rounded to the
\* nearest unit (ties to even) after every operation; settings are in 1/100.
One == 65536

Max(a, b) == IF a > b THEN a ELSE b
Min(a, b) == IF a < b THEN a ELSE b
\* a / b rounded to the nearest integer, ties to the even one (b > 0).
RoundDiv(a, b) ==
    LET q == a \div b
        r == a % b
    IN  IF 2 * r < b THEN q
        ELSE IF 2 * r > b THEN q + 1
        ELSE IF q % 2 = 0 THEN q ELSE q + 1
\* static_cast<int>: the integer part of a / b (b > 0).
Trunc(a, b) == IF a >= 0 THEN a \div b ELSE -((-a) \div b)

\* A conversion to float that scales by 1/256.
ToFloat_By256(v) == RoundDiv(v * One, 256)
\* input.convertTo(float_input, CV_32F, 1.0 / 255.0), one channel.
ToFloat(v) == RoundDiv(v * One, 255)
\* A conversion to 8 bits that drops the fraction instead of rounding.
ToByte_Truncating(x) == Max(0, Min(255, (x * 255) \div One))
\* A conversion to 8 bits that does not saturate.
ToByte_Unsaturated(x) == RoundDiv(x * 255, One)
\* result.convertTo(output, CV_8U, 255.0), one channel: rounds and saturates.
ToByte(x) == Max(0, Min(255, RoundDiv(x * 255, One)))
\* cv::max(0.0f, cv::min(1.0f, result)), one channel.
Clamp01(x) == Max(0, Min(One, x))

MapPixels(row, F(_)) == [i \in 1..Len(row) |-> F(row[i])]
MapChannels(px, F(_)) == <<F(px[1]), F(px[2]), F(px[3])>>

\* Contrast without the clamp of its product.
ContrastStage_Unclamped(row, contrast) ==
    IF contrast = 100 THEN row
    ELSE LET Scale(x) == RoundDiv(x * contrast, 100)
             Stage(px) == MapChannels(px, Scale)
         IN  MapPixels(row, Stage)

\* if (settings.contrast != 1.0f): result * contrast, clamped.
ContrastStage(row, contrast) ==
    IF contrast = 100 THEN row
    ELSE LET Scale(x) == Clamp01(RoundDiv(x * contrast, 100))
             Stage(px) == MapChannels(px, Scale)
         IN  MapPixels(row, Stage)

\* A tint stage that adds the red tint to channels[0], the blue channel.
TintStage_RedIntoBlue(row, red_tint, green_tint) ==
    IF red_tint = 0 /\ green_tint = 0 THEN row
    ELSE LET Stage(px) ==
                 <<Clamp01(px[1] + RoundDiv(red_tint * 3 * One, 1000)),
                   Clamp01(px[2] + RoundDiv(green_tint * 3 * One, 1000)),
                   Clamp01(px[3])>>
         IN  MapPixels(row, Stage)

\* if (red_tint != 0 || green_tint != 0): channels[2] += red_tint * 0.3f,
\* channels[1] += green_tint * 0.3f, clamped.
TintStage(row, red_tint, green_tint) ==
    IF red_tint = 0 /\ green_tint = 0 THEN row
    ELSE LET Stage(px) ==
                 <<Clamp01(px[1]),
                   Clamp01(px[2] + RoundDiv(green_tint * 3 * One, 1000)),
                   Clamp01(px[3] + RoundDiv(red_tint * 3 * One, 1000))>>
         IN  MapPixels(row, Stage)

\* cv::GaussianBlur(..., cv::Size(15, 15), 0): the 15 weights of the kernel of
\* sigma 0.3 * ((15 - 1) * 0.5 - 1) + 0.8 = 2.6, in 1/10000.  On a frame of
\* one row the vertical pass finds the same row at every tap.
GaussianKernel ==
    <<41, 107, 242, 472, 791, 1146, 1430, 1540, 1430, 1146, 791, 472, 242, 107, 41>>
\* BORDER_REFLECT_101: the column, in 1..n, that stands for column i.
Reflect101(i, n) ==
    IF n = 1 THEN 1
    ELSE LET m == (i - 1) % (2 * (n - 1))
         IN  IF m < n THEN m + 1 ELSE 2 * (n - 1) - m + 1
\* The weighted sum of the taps k..15 of the kernel centred on column i.
RECURSIVE Taps(_, _, _)
Taps(gray, i, k) ==
    IF k > Len(GaussianKernel) THEN 0
    ELSE GaussianKernel[k] * gray[Reflect101(i + k - 8, Len(gray))] + Taps(gray, i, k + 1)
KernelTotal == Taps(<<1>>, 1, 1)
\* cv::cvtColor(result, fog_mask, cv::COLOR_BGR2GRAY), one pixel.
Luma(px) == RoundDiv(114 * px[1] + 587 * px[2] + 299 * px[3], 1000)

\* if (settings.fog_intensity > 0.0f): the blurred luma blended over the image
\* by addWeighted, which does not clamp.
FogStage(row, fog_intensity) ==
    IF fog_intensity <= 0 THEN row
    ELSE LET fog_mask == MapPixels(row, Luma)
             blurred == [i \in 1..Len(row) |-> RoundDiv(Taps(fog_mask, i, 1), KernelTotal)]
         IN  [i \in 1..Len(row) |->
                 LET Blend(x) == RoundDiv(x * (100 - fog_intensity)
                                          + blurred[i] * fog_intensity, 100)
                 IN  MapChannels(row[i], Blend)]

\* cv::resize(result, stretched, cv::Size(cols, rows)), bilinear, column x of
\* the result (from 0).
ResizedPixel(row, cols, x) ==
    LET num == (2 * x + 1) * Len(row) - cols
        den == 2 * cols
        sx == num \div den
        r == num % den
    IN  IF num < 0 THEN row[1]
        ELSE IF sx >= Len(row) - 1 THEN row[Len(row)]
        ELSE LET Mix(c) == RoundDiv(row[sx + 1][c] * (den - r) + row[sx + 2][c] * r, den)
             IN  <<Mix(1), Mix(2), Mix(3)>>

\* static_cast<int>(settings.directional * 20)
StretchAmount(directional) == Trunc(directional * 20, 100)

\* if (settings.directional != 0.0f): the row resized by stretch_amount columns
\* and cut back to its width.  A resize to no column, and the cut of a row
\* made narrower at column -stretch_amount, fail OpenCV's checks, which throw.
DirectionalStage(row, directional) ==
    LET stretch_amount == StretchAmount(directional)
    IN  IF directional = 0 \/ stretch_amount = 0 THEN [thrown |-> FALSE, row |-> row]
        ELSE IF stretch_amount < 0 THEN [thrown |-> TRUE, row |-> <<>>]
        ELSE [thrown |-> FALSE,
              row |-> [i \in 1..Len(row) |->
                          ResizedPixel(row, Len(row) + stretch_amount, i - 1)]]

Done(frame) == [state |-> "done", frame |-> frame]
Thrown == [state |-> "thrown", frame |-> <<>>]

\* The EffectSettings ApplyEffects builds for one eye.
EyeSettings(settings, is_left_eye) ==
    IF is_left_eye
    THEN [enabled |-> settings.left_eye_enabled, contrast |-> settings.left_eye_contrast,
          red_tint |-> settings.left_eye_red_tint,
          green_tint |-> settings.left_eye_green_tint,
          fog_intensity |-> settings.left_eye_fog_intensity,
          directional |-> settings.left_eye_directional]
    ELSE [enabled |-> settings.right_eye_enabled, contrast |-> settings.right_eye_contrast,
          red_tint |-> settings.right_eye_red_tint,
          green_tint |-> settings.right_eye_green_tint,
          fog_intensity |-> settings.right_eye_fog_intensity,
          directional |-> settings.right_eye_directional]

PixelToFloat(px) == MapChannels(px, ToFloat)
PixelToByte(px) == MapChannels(px, ToByte)
\* RenderVideoFrame: cv::cvtColor(processed_frame_, gl_frame, cv::COLOR_BGR2RGB),
\* one pixel; gl_frame is uploaded as GL_RGB, its first channel shown as red.
BGR2RGB(px) == <<px[3], px[2], px[1]>>

\* ApplyEffects(input, output, is_left_eye) with `settings` the one eye's: the
\* output, or the exception of the directional stage.
ApplyEffects(input, settings) ==
    IF input = <<>> THEN Done(<<>>)
    ELSE LET float_input == MapPixels(input, PixelToFloat)
             contrasted == ContrastStage(float_input, settings.contrast)
             tinted == TintStage(contrasted, settings.red_tint, settings.green_tint)
             fogged == FogStage(tinted, settings.fog_intensity)
             stretched == DirectionalStage(fogged, settings.directional)
         IN  IF stretched.thrown THEN Thrown
             ELSE Done(MapPixels(stretched.row, PixelToByte))

\* The columns ProcessVideoFrame takes as one eye's: left_eye_rect and
\* right_eye_rect, each input.cols / 2 wide.
EyeRect(frame, is_left_eye) ==
    IF is_left_eye THEN SubSeq(frame, 1, Len(frame) \div 2)
    ELSE SubSeq(frame, (Len(frame) \div 2) + 1, 2 * (Len(frame) \div 2))

\* cv::Mat::zeros: black columns.
Zeros(cols) == [i \in 1..cols |-> <<0, 0, 0>>]

\* One eye of ProcessVideoFrame: ApplyEffects if the eye is enabled, else a copy.
ProcessEye(input, settings, is_left_eye) ==
    IF EyeSettings(settings, is_left_eye).enabled
    THEN ApplyEffects(EyeRect(input, is_left_eye), EyeSettings(settings, is_left_eye))
    ELSE Done(EyeRect(input, is_left_eye))

\* An exception left ProcessVideoFrame with `frame` written to the output.
ThrownWith(frame) == [state |-> "thrown", frame |-> frame]

\* ProcessVideoFrame(input, output): the output, black where neither eye's
\* rectangle is copied, or the exception of a stage, which leaves the output
\* as written until then.  For a rectangle of no column the processed eye is
\* an empty, untyped matrix, and its copyTo into output(rect), a destination
\* of fixed size and type, fails cv::Mat::copyTo's checks, which throw.
ProcessVideoFrameOutput(input, settings) ==
    IF input = <<>> THEN Done(<<>>)
    ELSE LET processed_left_eye == ProcessEye(input, settings, TRUE)
             processed_right_eye == ProcessEye(input, settings, FALSE)
         IN  IF processed_left_eye.state = "thrown" \/ processed_left_eye.frame = <<>>
             THEN ThrownWith(Zeros(Len(input)))
             ELSE IF processed_right_eye.state = "thrown"
                     \/ processed_right_eye.frame = <<>>
             THEN ThrownWith(processed_left_eye.frame
                             \o Zeros(Len(input) - (Len(input) \div 2)))
             ELSE Done(processed_left_eye.frame \o processed_right_eye.frame
                       \o Zeros(Len(input) - 2 * (Len(input) \div 2)))

\* -------------------------------------------------------------- frames and settings
Gray(v) == <<v, v, v>>
Pixels == {Gray(0), Gray(200), <<10, 100, 200>>}
RECURSIVE RowsOf(_)
\* The rows of `cols` columns of Pixels.
RowsOf(cols) ==
    IF cols = 0 THEN {<<>>}
    ELSE {Append(row, px) : row \in RowsOf(cols - 1), px \in Pixels}
\* The frames processed: every frame of up to MaxWidth columns of Pixels, and
\* the two-column frames whose left pixel is any gray level.
Frames ==
    UNION {RowsOf(cols) : cols \in 0..MaxWidth}
    \cup {<<Gray(v), Gray(50)>> : v \in 0..255}

Eye(enabled, contrast, red_tint, green_tint, fog_intensity, directional) ==
    [enabled |-> enabled, contrast |-> contrast, red_tint |-> red_tint,
     green_tint |-> green_tint, fog_intensity |-> fog_intensity,
     directional |-> directional]
NeutralEye == Eye(TRUE, 100, 0, 0, 0, 0)
DisabledEye == Eye(FALSE, 200, 50, -50, 300, -10)
\* One eye's settings (in 1/100), inside and outside the sliders' ranges.
LeftEyeChoices ==
    {NeutralEye, DisabledEye,
     Eye(TRUE, 200, 0, 0, 0, 0), Eye(TRUE, 50, 0, 0, 0, 0), Eye(TRUE, -50, 0, 0, 0, 0),
     Eye(TRUE, 150, 0, 0, 0, 4),
     Eye(TRUE, 200, -100, 0, 0, 0), Eye(TRUE, 100, 100, 50, 0, 0),
     Eye(TRUE, 100, 0, 0, 30, 0), Eye(TRUE, 200, -100, 0, 300, 0),
     Eye(TRUE, 100, 0, 0, 300, 10), Eye(TRUE, 100, 0, 0, 0, -10),
     Eye(TRUE, 100, 0, 50, 0, 0), Eye(TRUE, 100, -50, 0, 0, 0),
     Eye(TRUE, 100, 0, 0, 0, 3), Eye(TRUE, 100, 0, 0, 0, -3)}
RightEyeChoices ==
    {NeutralEye, DisabledEye, Eye(FALSE, 100, 0, 0, 0, 0), Eye(TRUE, 200, 0, 0, 0, 0),
     Eye(TRUE, 200, -100, 0, 300, 0)}
BothEyes(left, right) ==
    [left_eye_enabled |-> left.enabled, left_eye_contrast |-> left.contrast,
     left_eye_red_tint |-> left.red_tint, left_eye_green_tint |-> left.green_tint,
     left_eye_fog_intensity |-> left.fog_intensity,
     left_eye_directional |-> left.directional,
     right_eye_enabled |-> right.enabled, right_eye_contrast |-> right.contrast,
     right_eye_red_tint |-> right.red_tint, right_eye_green_tint |-> right.green_tint,
     right_eye_fog_intensity |-> right.fog_intensity,
     right_eye_directional |-> right.directional]
EffectChoices == {BothEyes(left, right) : left \in LeftEyeChoices, right \in RightEyeChoices}

\* An instance whose settings were set once, about to process an input frame.
PixelInit ==
    /\ instance = TRUE
    /\ program_ = 0 /\ vertex_buffer_ = 0 /\ texture_id_ = 0
    /\ lens_distortion_ = 0 /\ distortion_renderer_ = 0 /\ head_tracker_ = 0
    /\ frame_updated_ = FALSE
    /\ screen_width_ = 0 /\ screen_height_ = 0
    /\ processed_frame_ = 0 /\ video_uri_ = 0
    /\ frame_size = <<0, 0>>
    /\ effect_settings_ \in EffectChoices
    /\ created = [k \in Kinds |-> 0]
    /\ destroyed = [k \in Kinds |-> {}]
    /\ paused_trackers = {}
    /\ texture_data = 0 /\ texture_size = <<0, 0>>
    /\ gl_pc = "idle" /\ tick_calls = <<>> /\ tick_flag0 = FALSE
    /\ tick_clears = 0 /\ tick_paused0 = FALSE
    /\ last_op = "SetEffectSettings" /\ op_calls = <<>> /\ op_pre = NoPre /\ op_args = <<>>
    /\ latest_frame = 0 /\ last_uploaded = 0
    /\ host_paused = FALSE
    /\ act = "none" /\ gl_paused = TRUE /\ surf = "none"
    /\ preferences = PreferenceDefaults /\ settings_screen = "closed"
    /\ PlayInit /\ other = "none"
    /\ settings_gen = 1 /\ proc_pc = "idle" /\ proc_reads = <<>>
    /\ frame_in \in Frames /\ frame_out = NotRun

\* ProcessVideoFrame(input, output), run to its end with the settings left alone.
ProcessVideoFrame_Run ==
    /\ instance
    /\ frame_out = NotRun
    /\ frame_out' = ProcessVideoFrameOutput(frame_in, effect_settings_)
    /\ UNCHANGED <<appVars, worldVars, glVars, opVars, histVars, hostVars,
                   effect_settings_, settings_gen, proc_pc, proc_reads, frame_in>>

PixelNext == ProcessVideoFrame_Run

PixelSpec == PixelInit /\ [][PixelNext]_vars

\* -------------------------------------------------------------- the build without OpenCV
\* ProcessVideoFrame(input_data, width, height, output_data) of the #else
\* branch, on RGBA buffers of width * height * 4 bytes.  A buffer is a
\* sequence of bytes (byte i of the C array is element i + 1) or null.
MaxHeight == 2
BytesPerPixel == 4
\* (y * width + x) * bytes_per_pixel.
PixelIndex(width, y, x) == (y * width + x) * BytesPerPixel
\* The callers' buffers: an input whose bytes all differ from their
\* neighbours', an output filled with one value.
InputBytes(width, height, seed) ==
    [i \in 1..(width * height * BytesPerPixel) |-> (seed + 7 * i) % 256]
OutputBytes(width, height, fill) ==
    [i \in 1..(width * height * BytesPerPixel) |-> fill]

\* A loop body that copies each pixel of the input to its own place.
PlainCopy_Identity(width, y, x, byte) ==
    {<<PixelIndex(width, y, x) + byte, PixelIndex(width, y, x) + byte>>,
     <<PixelIndex(width, y, x + width \div 2) + byte,
       PixelIndex(width, y, x + width \div 2) + byte>>}

\* One byte of one turn of the inner loop: the pairs <<index read in
\* input_data, index written in output_data>>, for the left and the right eye.
PlainCopy(width, y, x, byte) ==
    {<<PixelIndex(width, y, x) + byte, PixelIndex(width, y, x) + byte>>,
     <<PixelIndex(width, y, x) + byte,
       PixelIndex(width, y, x + width \div 2) + byte>>}

\* The two loops: y over the rows, x over half_width = width / 2 columns.
PlainCopies(width, height) ==
    UNION {PlainCopy(width, y, x, byte) :
               y \in 0..(height - 1), x \in 0..((width \div 2) - 1),
               byte \in 0..(BytesPerPixel - 1)}

\* The output buffer after the call: no byte is written twice.
PlainOutput(input, output) ==
    IF input.null \/ output.null THEN output
    ELSE LET copies == PlainCopies(input.width, input.height)
         IN  [output EXCEPT !.data =
                 [i \in 1..Len(output.data) |->
                     IF \E c \in copies : c[2] = i - 1
                     THEN input.data[(CHOOSE c \in copies : c[2] = i - 1)[1] + 1]
                     ELSE output.data[i]]]

\* The call's arguments: a frame up to MaxWidth by MaxHeight, either pointer
\* possibly null.
PlainInputs ==
    {[null |-> null, width |-> width, height |-> height,
      data |-> IF null THEN <<>> ELSE InputBytes(width, height, seed)] :
         null \in BOOLEAN, width \in 0..MaxWidth, height \in 1..MaxHeight,
         seed \in {0, 100, 200}}
PlainOutputs(input) ==
    {[state |-> "not run", null |-> null,
      data |-> IF null THEN <<>> ELSE OutputBytes(input.width, input.height, fill)] :
         null \in BOOLEAN, fill \in {0, 255}}

PlainInit ==
    /\ instance = TRUE
    /\ program_ = 0 /\ vertex_buffer_ = 0 /\ texture_id_ = 0
    /\ lens_distortion_ = 0 /\ distortion_renderer_ = 0 /\ head_tracker_ = 0
    /\ frame_updated_ = FALSE
    /\ screen_width_ = 0 /\ screen_height_ = 0
    /\ processed_frame_ = 0 /\ video_uri_ = 0
    /\ frame_size = <<0, 0>>
    /\ effect_settings_ = DefaultSettings
    /\ created = [k \in Kinds |-> 0]
    /\ destroyed = [k \in Kinds |-> {}]
    /\ paused_trackers = {}
    /\ texture_data = 0 /\ texture_size = <<0, 0>>
    /\ gl_pc = "idle" /\ tick_calls = <<>> /\ tick_flag0 = FALSE
    /\ tick_clears = 0 /\ tick_paused0 = FALSE
    /\ last_op = "none" /\ op_calls = <<>> /\ op_pre = NoPre /\ op_args = <<>>
    /\ latest_frame = 0 /\ last_uploaded = 0
    /\ host_paused = FALSE
    /\ act = "none" /\ gl_paused = TRUE /\ surf = "none"
    /\ preferences = PreferenceDefaults /\ settings_screen = "closed"
    /\ PlayInit /\ other = "none"
    /\ settings_gen = 0 /\ proc_pc = "idle" /\ proc_reads = <<>>
    /\ frame_in \in PlainInputs
    /\ frame_out \in PlainOutputs(frame_in)

\* ProcessVideoFrame(input_data, width, height, output_data).
ProcessVideoFrame_Plain ==
    /\ instance
    /\ frame_out.state = "not run"
    /\ frame_out' = [PlainOutput(frame_in, frame_out) EXCEPT !.state = "done"]
    /\ UNCHANGED <<appVars, worldVars, glVars, opVars, histVars, hostVars,
                   effect_settings_, settings_gen, proc_pc, proc_reads, frame_in>>

PlainNext == ProcessVideoFrame_Plain

PlainSpec == PlainInit /\ [][PlainNext]_vars

\* ============================================================== claims
TickDone == gl_pc = "done"
TickCalled(f) == \E i \in 1..Len(tick_calls) : tick_calls[i].fn = f
\* The latest operation other than a draw tick, with no tick begun since.
JustRan(op) == last_op = op /\ gl_pc = "idle"

\* C1: no pushed frame is silently lost.  Whenever the frame-available flag is
\* clear, the newest pushed frame has been uploaded: a tick's clearing of the
\* flag never erases a push that arrived after the tick's check of the flag.
C1_NoPushedFrameLost == ~frame_updated_ => last_uploaded = latest_frame

\* C2: a draw tick on a created surface (shader program present), whatever the
\* distortion handles, clears the frame-available flag exactly once when the
\* flag was set as the tick began, and never clears it more than once.
C2_TickClearsFlagOnce ==
    /\ tick_clears <= 1
    /\ (TickDone /\ program_ # 0 /\ tick_flag0) => tick_clears = 1

\* C3: one processing pass uses one snapshot of the settings: everything it
\* read of effect_settings_ was written by the same writer.
C3_PassUsesOneSnapshot ==
    proc_pc = "done" =>
        \A i, j \in 1..Len(proc_reads) : proc_reads[i].gen = proc_reads[j].gen

\* C5: after SetScreenParams(width, height) and a draw tick, on a created
\* surface, the stored screen size is the new one, no stored distortion handle
\* is a destroyed one, and the stage is either Rendering, with a lens
\* distortion and a distortion renderer both made by that call and the tick
\* rendered through the renderer, or in the flat fallback, with no renderer and
\* the tick having drawn the flat quad.
C5_ResizeThenDrawRenders ==
    (last_op = "SetScreenParams" /\ TickDone /\ program_ # 0) =>
        /\ <<screen_width_, screen_height_>> = op_args
        /\ lens_distortion_ \notin destroyed["lens"]
        /\ distortion_renderer_ \notin destroyed["renderer"]
        /\ \/ /\ lens_distortion_ # 0 /\ lens_distortion_ = created["lens"]
              /\ distortion_renderer_ # 0 /\ distortion_renderer_ = created["renderer"]
              /\ TickCalled("CardboardDistortionRenderer_renderEyeToDisplay")
           \/ /\ distortion_renderer_ = 0
              /\ TickCalled("glDrawArrays")

\* C6: SetScreenParams preserves the head tracker: the handle is the one held
\* before the call, and the call creates no head tracker.
C6_ResizeKeepsHeadTracker ==
    JustRan("SetScreenParams") =>
        /\ head_tracker_ = op_pre.h["tracker"]
        /\ created["tracker"] = op_pre.created["tracker"]

\* C7: with the shader program present and the distortion renderer absent, a
\* draw tick still uploads the texture and draws the flat split quad.
C7_FlatFallbackDraws ==
    (TickDone /\ program_ # 0 /\ distortion_renderer_ = 0) =>
        /\ TickCalled("glBindTexture")
        /\ TickCalled("glDrawArrays")

\* C8: a draw tick that begins between OnPause and the next OnResume issues no
\* GPU or SDK call (no pose query, no upload, no distortion render); OnPause
\* leaves the head tracker paused and OnResume leaves it resumed.
C8_NoCallsWhilePaused ==
    /\ tick_paused0 => tick_calls = <<>>
    /\ (JustRan("OnPause") /\ head_tracker_ # 0) => head_tracker_ \in paused_trackers
    /\ (JustRan("OnResume") /\ head_tracker_ # 0) => head_tracker_ \notin paused_trackers

\* The destroy calls of `calls` come in the order `order` lists the kinds.
InOrder(calls, order) ==
    \A i, j \in 1..Len(calls) :
        i < j => \E a, b \in 1..Len(order) :
                     a < b /\ order[a] = calls[i].kind /\ order[b] = calls[j].kind
TornDown == JustRan("nativeOnDestroy")

\* C9 as stated: teardown destroys texture, vertex buffer, shader program, head
\* tracker, lens distortion, distortion renderer, in that order.
C9_TeardownOrder_Stated ==
    TornDown => InOrder(op_calls, <<"texture", "buffer", "program", "tracker", "lens", "renderer">>)

\* C9 as amended: teardown destroys shader program, vertex buffer, texture,
\* lens distortion, distortion renderer, head tracker, in that order.
C9_TeardownOrder ==
    TornDown => InOrder(op_calls, <<"program", "buffer", "texture", "lens", "renderer", "tracker">>)

\* A teardown that destroyed all six objects.
C9_Witness == TornDown /\ Len(op_calls) = 6

\* C10: teardown, whatever handles are null, issues destroy calls only for the
\* non-null handles it holds, at most one per handle, never with a null handle
\* and never for an object already destroyed.
C10_TeardownSafe ==
    TornDown =>
        /\ \A i \in 1..Len(op_calls) :
              /\ op_calls[i].h # 0
              /\ op_calls[i].h = op_pre.h[op_calls[i].kind]
              /\ op_calls[i].h \notin op_pre.destroyed[op_calls[i].kind]
        /\ \A k \in Kinds :
              Cardinality({i \in 1..Len(op_calls) : op_calls[i].kind = k}) <= 1

\* A teardown that found some handles null and destroyed the others.
C10_Witness ==
    /\ TornDown
    /\ op_calls # <<>>
    /\ \E k \in Kinds : op_pre.h[k] = 0
    /\ \E k \in {"tracker", "lens", "renderer"} : op_pre.h[k] = 0
    /\ \E k \in {"tracker", "lens", "renderer"} : op_pre.h[k] # 0

LoggedCalls == Range(op_calls) \cup Range(tick_calls)

\* C11: no null handle is ever passed to a head-tracker, lens-distortion or
\* distortion-renderer call (get-pose, pause, resume, render, destroy), also
\* when the head tracker's creation failed and the distortion renderer exists.
C11_NoNullHandleUse ==
    \A c \in LoggedCalls : c.kind \in {"tracker", "lens", "renderer"} => c.h # 0

\* C12: a draw tick that runs with no frame ever pushed uploads the generated
\* placeholder: it issues a texture upload and the texture no longer holds
\* the black image of its allocation.
C12_PlaceholderUploaded ==
    (TickDone /\ program_ # 0 /\ distortion_renderer_ # 0 /\ latest_frame = 0) =>
        /\ TickCalled("glTexImage2D") \/ TickCalled("glTexSubImage2D")
        /\ texture_data # 0

\* C13: no step of a draw tick creates or destroys a GPU object: the shader
\* program, vertex buffer and texture identifiers are after every step of a
\* tick what they were before it, and so are the records of objects created
\* and destroyed.
C13_TickKeepsGpuObjects ==
    [][gl_pc' # "idle" =>
          /\ program_' = program_
          /\ vertex_buffer_' = vertex_buffer_
          /\ texture_id_' = texture_id_
          /\ created' = created
          /\ destroyed' = destroyed]_vars

\* Consecutive ticks, with and without a pending frame: a tick that uploaded
\* the last frame has ended, after an earlier tick uploaded nothing newer.
C13_Witness ==
    /\ TickDone
    /\ TickCalled("glTexSubImage2D")
    /\ TickCalled("CardboardDistortionRenderer_renderEyeToDisplay")
    /\ last_uploaded >= 2
    /\ texture_id_ # 0

\* C14: the allocated texture has the size of the frame uploaded into it or
\* is the 512x512 square: an upload finds or makes the texture of the frame's
\* size, and no sub-region update is wider or higher than the texture.
C14_TextureFitsFrame ==
    /\ texture_id_ # 0 =>
           \/ texture_size = <<TextureSide, TextureSide>>
           \/ texture_data # 0 /\ texture_size = frame_size
    /\ \A c \in Range(tick_calls) :
           c.fn = "glTexSubImage2D" =>
               /\ <<c.width, c.height>> = texture_size
               /\ c.width <= texture_size[1] /\ c.height <= texture_size[2]

\* C15: a draw tick that uploads a pending frame has run a processing pass of
\* its own on it, which read the settings current at the tick.
C15_TickProcessesFrame ==
    (gl_pc \in {"clear", "render", "done"} /\ TickCalled("glTexSubImage2D")) =>
        /\ proc_pc = "done"
        /\ proc_reads # <<>>
        /\ \A i \in 1..Len(proc_reads) : proc_reads[i].gen = settings_gen

\* ProcessVideoFrame has returned an output.
OutDone == frame_out.state = "done"
\* The settings of one eye in the call.
EyeOf(is_left_eye) == EyeSettings(effect_settings_, is_left_eye)
\* An eye's half of a frame: the first half-width columns are the left half,
\* the remaining columns the right half.
Half(frame, is_left_eye) ==
    IF is_left_eye THEN SubSeq(frame, 1, Len(frame) \div 2)
    ELSE SubSeq(frame, (Len(frame) \div 2) + 1, Len(frame))

\* C16: whatever the frame and the other effect fields, the half of the output
\* of an eye whose enabled flag is false is the same half of the input, bit
\* for bit.
C16_DisabledEyeIsIdentity ==
    OutDone =>
        \A is_left_eye \in BOOLEAN :
            ~EyeOf(is_left_eye).enabled =>
                Half(frame_out.frame, is_left_eye) = Half(frame_in, is_left_eye)

\* C17: for an enabled eye with neutral settings (contrast 1, tints 0, fog 0,
\* directional 0) the columns ApplyEffects returns are the columns it was
\* given, for every 8-bit value: the conversion to float and back is exact.
C17_NeutralEyeIsIdentity ==
    OutDone =>
        \A is_left_eye \in BOOLEAN :
            EyeOf(is_left_eye) = NeutralEye =>
                EyeRect(frame_out.frame, is_left_eye) = EyeRect(frame_in, is_left_eye)

\* A neutral left eye processed a pixel of an odd gray level.
C17_Witness ==
    /\ OutDone /\ EyeOf(TRUE) = NeutralEye
    /\ Len(frame_in) = 2 /\ frame_in[1] = Gray(127)

\* C18: whatever the settings (contrast above 1, negative tints, fog outside
\* [0,1]), the output has the columns of the input and every channel of every
\* pixel of it is in 0..255.
C18_OutputInRange ==
    OutDone =>
        /\ Len(frame_out.frame) = Len(frame_in)
        /\ \A i \in 1..Len(frame_out.frame) : \A c \in 1..3 :
               frame_out.frame[i][c] \in 0..255

\* Contrast 2, red tint -1 and fog 3 on a left half of two columns, one of
\* them coloured.
C18_Witness ==
    /\ OutDone /\ EyeOf(TRUE) = Eye(TRUE, 200, -100, 0, 300, 0)
    /\ Len(frame_in) = 4
    /\ <<10, 100, 200>> \in {frame_in[1], frame_in[2]}

\* The stages in the order contrast, tint, fog, directional stretch, each fed
\* the output of the one before, from the float input to the 8-bit output;
\* `FogOut` is what is made of a channel of the fog stage's output before the
\* directional stage takes it.
StagesInOrder(input, settings, FogOut(_)) ==
    LET FogOutPixel(px) == MapChannels(px, FogOut)
        contrasted == ContrastStage(MapPixels(input, PixelToFloat), settings.contrast)
        tinted == TintStage(contrasted, settings.red_tint, settings.green_tint)
        fogged == MapPixels(FogStage(tinted, settings.fog_intensity), FogOutPixel)
        stretched == DirectionalStage(fogged, settings.directional)
    IN  MapPixels(stretched.row, PixelToByte)
Unchanged(x) == x

\* Contrast 2 then red tint -1 on a gray pixel of level 200: the red channel
\* is clamp(1.0) - 0.3 of full scale, the others stay at full scale.
ClampedBeforeTint ==
    (EyeOf(TRUE) = Eye(TRUE, 200, -100, 0, 0, 0) /\ Len(frame_in) >= 2
     /\ frame_in[1] = Gray(200)) =>
        /\ frame_out.frame[1][3] \in {178, 179}
        /\ frame_out.frame[1][2] = 255 /\ frame_out.frame[1][1] = 255

\* C19 as stated: an enabled eye's output is the stages applied in the order
\* contrast, tint, fog, directional stretch, every stage taking the clamped
\* output of the stage before it, the fog stage's included.
C19_StagesInOrder_Stated ==
    OutDone =>
        /\ \A is_left_eye \in BOOLEAN :
               EyeOf(is_left_eye).enabled =>
                   EyeRect(frame_out.frame, is_left_eye) =
                       StagesInOrder(EyeRect(frame_in, is_left_eye), EyeOf(is_left_eye),
                                     Clamp01)
        /\ ClampedBeforeTint

\* C19 as amended: an enabled eye's output is the stages applied in the order
\* contrast, tint, fog, directional stretch, each taking the output of the
\* stage before it; the contrast and the tint results are clamped (the
\* contrast result before the tint is added), the fog result is not.
C19_StagesInOrder ==
    OutDone =>
        /\ \A is_left_eye \in BOOLEAN :
               EyeOf(is_left_eye).enabled =>
                   EyeRect(frame_out.frame, is_left_eye) =
                       StagesInOrder(EyeRect(frame_in, is_left_eye), EyeOf(is_left_eye),
                                     Unchanged)
        /\ ClampedBeforeTint

\* Contrast 2 and red tint -1 were applied to a gray pixel of level 200.
C19_Witness ==
    /\ OutDone /\ EyeOf(TRUE) = Eye(TRUE, 200, -100, 0, 0, 0)
    /\ Len(frame_in) >= 2 /\ frame_in[1] = Gray(200)

\* Only the contrast stage acts for these settings.
ContrastOnly(settings) ==
    /\ settings.enabled
    /\ settings.red_tint = 0 /\ settings.green_tint = 0
    /\ settings.fog_intensity <= 0
    /\ StretchAmount(settings.directional) = 0
\* `out` is input * contrast / 100, kept within 0..255, to the nearest integer.
IsScaled(out, input, contrast) ==
    LET exact == Max(0, Min(25500, input * contrast))
    IN  100 * out - exact <= 50 /\ exact - 100 * out <= 50

\* C20: with only the contrast stage active on an enabled eye, every output
\* channel is min(255, input * contrast), not below 0, to the nearest integer,
\* and is the input when contrast is 1.0; left (100,100,100) with contrast 2.0
\* and right (50,50,50) disabled give left (200,200,200), right (50,50,50).
C20_ContrastOnly ==
    OutDone =>
        /\ \A is_left_eye \in BOOLEAN :
               ContrastOnly(EyeOf(is_left_eye)) =>
                   \A i \in 1..Len(EyeRect(frame_in, is_left_eye)) : \A c \in 1..3 :
                       LET input == EyeRect(frame_in, is_left_eye)[i][c]
                           out == EyeRect(frame_out.frame, is_left_eye)[i][c]
                       IN  IF EyeOf(is_left_eye).contrast = 100
                           THEN out = input
                           ELSE IsScaled(out, input, EyeOf(is_left_eye).contrast)
        /\ (/\ frame_in = <<Gray(100), Gray(50)>>
            /\ effect_settings_ = BothEyes(Eye(TRUE, 200, 0, 0, 0, 0), DisabledEye)) =>
               frame_out.frame = <<Gray(200), Gray(50)>>

\* The 2x1 input of the scenario has been processed.
C20_Witness ==
    /\ OutDone
    /\ frame_in = <<Gray(100), Gray(50)>>
    /\ effect_settings_ = BothEyes(Eye(TRUE, 200, 0, 0, 0, 0), DisabledEye)

\* Only the tint stage can act for these settings.
TintOnly(settings) ==
    /\ settings.enabled
    /\ settings.contrast = 100
    /\ settings.fog_intensity <= 0
    /\ StretchAmount(settings.directional) = 0
\* `out` is input + 0.3 * tint of full scale (255 * 0.3 * tint / 100), kept
\* within 0..255, to the nearest integer.
IsTinted(out, input, tint) ==
    LET exact == Max(0, Min(255000, 1000 * input + 765 * tint))
    IN  1000 * out - exact <= 500 /\ exact - 1000 * out <= 500

\* C21: the tint stage adds red_tint * 0.3 to the red channel only and
\* green_tint * 0.3 to the green channel only, clamps to [0,1] and leaves the
\* blue channel as it was; with both tints 0 it changes nothing.  The channel
\* that receives the red tint is the one the upload's colour-order conversion
\* puts first, where GL_RGB shows it as red.
C21_TintRedAndGreen ==
    OutDone =>
        \A is_left_eye \in BOOLEAN :
            TintOnly(EyeOf(is_left_eye)) =>
                \A i \in 1..Len(EyeRect(frame_in, is_left_eye)) :
                    LET input == EyeRect(frame_in, is_left_eye)[i]
                        out == EyeRect(frame_out.frame, is_left_eye)[i]
                        shown == BGR2RGB(out)
                    IN  /\ IsTinted(shown[1], input[3], EyeOf(is_left_eye).red_tint)
                        /\ IsTinted(shown[2], input[2], EyeOf(is_left_eye).green_tint)
                        /\ shown[3] = input[1]
                        /\ (/\ EyeOf(is_left_eye).red_tint = 0
                            /\ EyeOf(is_left_eye).green_tint = 0) => out = input

\* Red tint 1.0 and green tint 0.5 were applied to a coloured pixel, whose red
\* channel saturates.
C21_Witness ==
    /\ OutDone /\ EyeOf(TRUE) = Eye(TRUE, 100, 100, 50, 0, 0)
    /\ Len(frame_in) >= 2 /\ frame_in[1] = <<10, 100, 200>>
    /\ frame_out.frame[1] = <<10, 138, 255>>

\* Only the directional stage can act for these settings.
DirectionalOnly(settings) ==
    /\ settings.enabled
    /\ settings.contrast = 100
    /\ settings.red_tint = 0 /\ settings.green_tint = 0
    /\ settings.fog_intensity <= 0
\* round(directional * 20), directional in 1/100.
RoundedStretch(directional) == RoundDiv(directional * 20, 100)
\* The row resized to `amount` more columns and cut back to its width from
\* column 0 (amount >= 0).
StretchedBy(row, amount) ==
    IF amount = 0 THEN row
    ELSE [i \in 1..Len(row) |-> ResizedPixel(row, Len(row) + amount, i - 1)]

\* C22: the directional stage resizes the half by round(directional * 20)
\* pixels (directional 0.03 gives 1 pixel, -0.03 gives -1 pixel) and is skipped
\* exactly when that rounded amount is 0.
C22_StretchIsRounded ==
    OutDone =>
        \A is_left_eye \in BOOLEAN :
            (DirectionalOnly(EyeOf(is_left_eye)) /\ EyeRect(frame_in, is_left_eye) # <<>>) =>
                /\ StretchAmount(EyeOf(is_left_eye).directional)
                       = RoundedStretch(EyeOf(is_left_eye).directional)
                /\ RoundedStretch(EyeOf(is_left_eye).directional) >= 0 =>
                       EyeRect(frame_out.frame, is_left_eye) =
                           MapPixels(StretchedBy(MapPixels(EyeRect(frame_in, is_left_eye),
                                                           PixelToFloat),
                                                 RoundedStretch(EyeOf(is_left_eye).directional)),
                                     PixelToByte)

\* The directional stage of an eye acts on a half that has columns.
StretchActs(is_left_eye) ==
    /\ EyeOf(is_left_eye).enabled
    /\ StretchAmount(EyeOf(is_left_eye).directional) # 0
    /\ EyeRect(frame_in, is_left_eye) # <<>>

\* C23: for positive and for negative directional amounts the stage completes
\* without error and the output half has the width of the input half: the
\* crop rectangle lies inside the resized image.
C23_StretchCompletes ==
    (frame_out # NotRun /\ \E is_left_eye \in BOOLEAN : StretchActs(is_left_eye)) =>
        /\ frame_out.state = "done"
        /\ \A is_left_eye \in BOOLEAN :
               Len(EyeRect(frame_out.frame, is_left_eye))
                   = Len(EyeRect(frame_in, is_left_eye))

\* C24: an empty input, or one so narrow that a half has no column (width
\* 1), is processed as a no-op for every combination of settings: no error is
\* raised and the output is empty or is the input unchanged.
C24_EmptyInputIsNoOp ==
    (frame_out # NotRun /\ Len(frame_in) <= 1) =>
        /\ frame_out.state = "done"
        /\ frame_out.frame \in {<<>>, frame_in}

\* C25: the composite has the width of the input and the two halves partition
\* the frame: the left half is the first half-width columns, the right half
\* all the remaining ones, so that for every width, odd ones included, every
\* input column belongs to exactly one half; with both eyes disabled the whole
\* composite is the whole input.
C25_HalvesPartitionFrame ==
    OutDone =>
        /\ Len(frame_out.frame) = Len(frame_in)
        /\ EyeRect(frame_in, TRUE) \o EyeRect(frame_in, FALSE) = frame_in
        /\ (~EyeOf(TRUE).enabled /\ ~EyeOf(FALSE).enabled) => frame_out.frame = frame_in

\* The settings of a run that differs from this one in one eye's fields only.
OtherSettings(is_left_eye, eye) ==
    IF is_left_eye THEN BothEyes(eye, EyeOf(FALSE)) ELSE BothEyes(EyeOf(TRUE), eye)
\* The input with every pixel of one eye's half replaced by `px`.
OtherInput(is_left_eye, px) ==
    [i \in 1..Len(frame_in) |->
        IF (i <= Len(frame_in) \div 2) = is_left_eye /\ i <= 2 * (Len(frame_in) \div 2)
        THEN px ELSE frame_in[i]]

\* C26: the two halves are processed independently.  Of two runs on the same
\* input whose settings differ only in the fields of one eye, the other eye's
\* half of the output is the same, and no pixel of one half of the input
\* bears on the other half of the output.
C26_HalvesIndependent ==
    frame_out # NotRun =>
        \A is_left_eye \in BOOLEAN :
            /\ \A eye \in LeftEyeChoices :
                   EyeRect(ProcessVideoFrameOutput(
                               frame_in, OtherSettings(is_left_eye, eye)).frame,
                           ~is_left_eye)
                       = EyeRect(frame_out.frame, ~is_left_eye)
            /\ \A px \in Pixels :
                   EyeRect(ProcessVideoFrameOutput(
                               OtherInput(is_left_eye, px), effect_settings_).frame,
                           ~is_left_eye)
                       = EyeRect(frame_out.frame, ~is_left_eye)

\* The GPU and SDK calls a tick can issue after its pose query, as the handles
\* and the frame sizes alone determine them.
PoseFreeCalls ==
    {Call("glBindTexture", "texture", texture_id_),
     RenderCall(distortion_renderer_, texture_id_, screen_width_, screen_height_)}
    \cup {SubImageCall(texture_id_, size[1], size[2]) : size \in FrameSizes}

\* C27: the head pose is fetched on each draw tick and never applied.  Runs
\* that differ only in the poses the tracker returns have the same texture
\* contents and the same draw calls: the pose appears in the pose query alone,
\* every other call of the tick is the one the handles, the screen size and
\* the frame determine, and the texture holds nothing but a pushed frame.
C27_PoseNeverApplied ==
    /\ \A i \in 1..Len(tick_calls) :
           IF i = 1
           THEN tick_calls[i].fn = "CardboardHeadTracker_getPose"
           ELSE tick_calls[i] \in PoseFreeCalls
    /\ texture_data \in {0, last_uploaded}

\* A tick that was given the pose of a turned head has uploaded a frame and
\* rendered.
C27_Witness ==
    /\ TickDone
    /\ tick_calls # <<>> /\ tick_calls[1].pose = "turned"
    /\ TickCalled("glTexSubImage2D")
    /\ TickCalled("CardboardDistortionRenderer_renderEyeToDisplay")

\* The positions in the tick's calls of the calls of function `f`.
CallsOf(f) == {i \in 1..Len(tick_calls) : tick_calls[i].fn = f}

C30_HooksChangeNothing ==
    [][(OnTriggerEvent \/ nativeSetVideoUri) =>
          /\ Handles' = Handles
          /\ frame_updated_' = frame_updated_
          /\ <<screen_width_, screen_height_>>' = <<screen_width_, screen_height_>>
          /\ effect_settings_' = effect_settings_
          /\ <<processed_frame_, frame_size>>' = <<processed_frame_, frame_size>>
          /\ worldVars' = worldVars
          /\ op_calls' = <<>>
          /\ (OnTriggerEvent => video_uri_' = video_uri_)]_vars

\* OnTriggerEvent has run on a created and sized surface with a frame pending,
\* after SetVideoUri replaced the URI.
C30_Witness ==
    /\ JustRan("OnTriggerEvent")
    /\ video_uri_ = 2
    /\ program_ # 0 /\ distortion_renderer_ # 0 /\ head_tracker_ # 0
    /\ frame_updated_ /\ screen_width_ # 0

\* The player activity is past its onCreate and not being destroyed.
PlayerCreated == act \in {"created", "resumed", "pausing", "paused"}

\* C29 as stated: whenever the user changes an effect control, SetEffectSettings
\* is called with the resulting configuration: the settings of the core are
\* the persisted preferences after every change.
C29_SettingsFollowControls_Stated ==
    PlayerCreated => effect_settings_ = preferences

\* C29 as amended: SetEffectSettings is called with the full persisted
\* configuration when the player is created and when the settings screen
\* returns its result, not at each change of a control: whenever the settings
\* screen is closed the settings of the core are the persisted preferences,
\* each of the twelve fields in its own, and the player was not restarted.
C29_SettingsFollowPreferences ==
    (PlayerCreated /\ settings_screen = "closed") => effect_settings_ = preferences

\* The player has resumed after the user changed both tints and more on the
\* settings screen; its core was given the settings twice.
C29_Witness ==
    /\ act = "resumed" /\ settings_screen = "closed"
    /\ settings_gen = 2
    /\ effect_settings_.left_eye_red_tint = 50
    /\ effect_settings_.right_eye_green_tint = -50
    /\ effect_settings_.left_eye_fog_intensity = 0

\* -------------------------------------------------------------- touch claims
\* The Runnable the current gesture posted is still waiting on the Handler.
OwnTimerPending == \E r \in posted : r.id = longPressRunnable
Toggled ==
    /\ isPlaying' = ~isPlaying
    /\ exoPlayer' = IF isPlaying THEN "paused" ELSE "playing"

\* C31: a touch released before its long-press timer has fired toggles playback
\* exactly once, between playing and paused; a touch released after its timer
\* has fired leaves playback alone; and after the release the gesture's timer
\* is no longer pending.
C31_TapTogglesOnce ==
    [][ACTION_UP =>
         /\ OwnTimerPending => Toggled
         /\ ~OwnTimerPending => UNCHANGED <<isPlaying, exoPlayer>>
         /\ \A r \in posted' : r.id # longPressRunnable]_vars

\* A move of the gesture has called exoPlayer.seekTo.
Seeks == ACTION_MOVE /\ lastSeekTime' # lastSeekTime
Abs(x) == IF x < 0 THEN -x ELSE x

\* C32: during a long press a negative tilt seeks backward and a positive tilt
\* forward by one second per degree, the position asked for staying within
\* [0, duration]; a tilt of at most 10 degrees, or a move within 500 ms of the
\* previous seek, seeks nothing.
C32_TiltSeeks ==
    [][Seeks =>
         LET seek == last_seek' IN
         /\ isLongPress
         /\ Abs(seek.tilt) > TiltThreshold
         /\ now - lastSeekTime > SEEK_THRESHOLD
         /\ 0 <= seek.to /\ seek.to <= seek.duration
         /\ seek.tilt < 0 =>
                seek.to = IF seek.from + seek.tilt > 0 THEN seek.from + seek.tilt ELSE 0
         /\ seek.tilt > 0 =>
                seek.to = IF seek.from + seek.tilt < seek.duration
                          THEN seek.from + seek.tilt ELSE seek.duration]_vars

\* C39: isPlaying is the user's intent and survives the lifecycle: only a
\* release of a touch changes it, onPause and onResume leave it alone, while
\* the activity is paused the player is paused, and after onResume the player
\* plays exactly if isPlaying, that is unless the user paused it by a tap.
C39_IntentSurvivesLifecycle ==
    [][/\ isPlaying' # isPlaying => ACTION_UP
       /\ (onPause_Native \/ onPause_GlView \/ onResume) => isPlaying' = isPlaying
       /\ onPause_Native => exoPlayer' = "paused"
       /\ onPause_GlView => exoPlayer' = "paused"
       /\ onResume => (exoPlayer' = IF isPlaying THEN "playing" ELSE "paused")]_vars
\* The activity is resumed, onResume's native call being the last one, and the
\* video is paused by a tap.
C39_Witness ==
    /\ act = "resumed" /\ last_op = "OnResume" /\ touch = "up"
    /\ ~isPlaying /\ exoPlayer = "paused" /\ longPressRunnable >= 1

ColumnOf(index, width) == (index \div BytesPerPixel) % width

\* C34: without the image-processing library ProcessVideoFrame writes the
\* input's left half into both halves of the output: for every row and every
\* x below width / 2, output pixels x and x + width / 2 equal input pixel x;
\* no byte of the input's right half is read; and with a null input or output
\* pointer the call changes nothing.
C34_PlainMirrorsLeftHalf ==
    [][ProcessVideoFrame_Plain =>
         IF frame_in.null \/ frame_out.null
         THEN frame_out'.data = frame_out.data /\ frame_out'.null = frame_out.null
         ELSE LET width == frame_in.width
                  half == frame_in.width \div 2
              IN  /\ \A y \in 0..(frame_in.height - 1) : \A x \in 0..(half - 1) :
                       \A byte \in 1..BytesPerPixel :
                         /\ frame_out'.data[PixelIndex(width, y, x) + byte] =
                                frame_in.data[PixelIndex(width, y, x) + byte]
                         /\ frame_out'.data[PixelIndex(width, y, x + half) + byte] =
                                frame_in.data[PixelIndex(width, y, x) + byte]
                  /\ \A c \in PlainCopies(width, frame_in.height) :
                         ColumnOf(c[1], width) < half]_vars
\* A frame 4 wide and 2 high was processed: the third pixel of the second row
\* of the output is the first pixel of that row of the input, not the third.
C34_Witness ==
    /\ frame_out.state = "done" /\ ~frame_in.null /\ ~frame_out.null
    /\ frame_in.width = 4 /\ frame_in.height = 2
    /\ frame_out.data[PixelIndex(4, 1, 2) + 1] = frame_in.data[PixelIndex(4, 1, 0) + 1]
    /\ frame_out.data[PixelIndex(4, 1, 2) + 1] # frame_in.data[PixelIndex(4, 1, 2) + 1]

\* -------------------------------------------------------------- ownership claims
\* C35: no resource leak across the surface lifecycle: a head tracker, lens
\* distortion, distortion renderer, shader program, vertex buffer or texture
\* the app holds leaves its field only by being destroyed, so that every live
\* object is referenced by the app, there is at most one of each kind, and
\* teardown destroys them all.
C35_NoLeak ==
    [][\A k \in Kinds :
          (Handles[k] # 0 /\ Handles'[k] # Handles[k]) => Handles[k] \in destroyed'[k]]_vars

\* The calls a step adds to the draw tick's log.
NewTickCalls ==
    IF GlIdle
    THEN IF tick_calls' # tick_calls THEN tick_calls' ELSE <<>>
    ELSE SubSeq(tick_calls', Len(tick_calls) + 1, Len(tick_calls'))
\* The object handles a call passes.
Passes(c) ==
    {<<c.kind, c.h>>} \cup
    (IF c.fn = "CardboardDistortionRenderer_renderEyeToDisplay"
     THEN {<<"texture", c.texture>>} ELSE {})

\* C36: no use after destroy and no double destroy: no render, pose, pause,
\* resume or destroy call of any operation or draw tick passes a handle that a
\* destroy call was given before, and no operation passes one handle twice.
C36_NoUseAfterDestroy ==
    [][/\ \A c \in Range(NewTickCalls) : \A p \in Passes(c) : p[2] \notin destroyed[p[1]]
       /\ op_pre' = Pre =>
            /\ \A c \in Range(op_calls') : \A p \in Passes(c) : p[2] \notin destroyed[p[1]]
            /\ \A i, j \in 1..Len(op_calls') :
                   i < j => Passes(op_calls'[i]) \cap Passes(op_calls'[j]) = {}]_vars
\* A draw tick rendered after a resize had destroyed a lens distortion and a
\* distortion renderer, while the host was paused.
C36_Witness ==
    /\ TickDone /\ TickCalled("CardboardDistortionRenderer_renderEyeToDisplay")
    /\ destroyed["lens"] # {} /\ destroyed["renderer"] # {}
    /\ host_paused

\* C37: an OnDrawFrame that finds the shader program 0, as before
\* OnSurfaceCreated, is a complete no-op: the tick ends at once with no GPU or
\* SDK call and every field, the frame flag included, as it was, whatever the
\* frame flag and the distortion handles are.
C37_DrawWithoutProgramIsNoOp ==
    [][(nativeOnDrawFrame /\ program_ = 0) =>
           /\ tick_calls' = <<>> /\ gl_pc' = "done"
           /\ UNCHANGED <<appVars, worldVars, histVars, fxVars>>]_vars
\* A tick ended with no call although a frame was pending and the distortion
\* renderer existed: the shader program was 0.
C37_Witness ==
    /\ TickDone /\ tick_calls = <<>> /\ tick_flag0
    /\ program_ = 0 /\ distortion_renderer_ # 0 /\ lens_distortion_ # 0
    /\ frame_updated_

\* -------------------------------------------------------------- bridge claims
\* C38: the bridge holds at most one instance: with no instance every entry
\* point leaves the app and its objects alone; a nativeOnCreate that finds an
\* instance destroys it, and nativeOnDestroy destroys the instance held, with
\* the destroy calls of the handles it held; and no entry point is at work
\* on an instance that has been destroyed: a draw tick in progress has its
\* instance.
C38_BridgeSingleInstance ==
    [][/\ (~instance /\ ~instance') => UNCHANGED <<appVars, worldVars, effect_settings_>>
       /\ (instance /\ last_op' \in {"nativeOnCreate", "nativeOnDestroy"}
           /\ op_pre' = Pre /\ instance' = (last_op' = "nativeOnCreate")) =>
             /\ op_calls' = DtorCalls
             /\ \A k \in Kinds : Handles'[k] = 0
       /\ ~GlIdle' => instance']_vars

====
